---------------------------- MODULE Spec2Model ----------------------------
(***************************************************************************)
(* A model of the sun-tracking calculator: the solar position model        *)
(* (solar-calculator), the lighting periods and sun path (sun-times) and   *)
(* the time zone conversions (timezone-handler).                           *)
(*                                                                         *)
(* Numbers.  JavaScript numbers are held in fixed point: angles in         *)
(* hundredths of a degree, values of sin/cos/tan in units of 1/One,        *)
(* minutes of the closed-form events in hundredths of a minute, instants   *)
(* as a day count since 1970-01-01 UTC with the milliseconds of that day.  *)
(* Products and quotients round to the nearest unit, as IEEE arithmetic    *)
(* rounds to the nearest double; the operations the code truncates         *)
(* (Date construction, setUTCMinutes) truncate here.                       *)
(***************************************************************************)
EXTENDS Integers, Sequences, FiniteSets, Bags, TLC

VARIABLES
  sysZone,     \* identifier of the zone the process runs in
  sysOffset,   \* UTC offset, in minutes, of that zone when it keeps one offset all year
  hourCycle,   \* "h23" or "h24": how the engine's formatter counts hours for hour12: false
  pc,          \* "call" before the operation has run, "done" after it
  call,        \* the operation and its arguments
  result,      \* what the operation returned or threw
  timezoneCache,  \* the module's Map from "lat,lon" keys to zone identifiers
  online,      \* navigator.onLine
  user,        \* whether getCurrentUser() resolves to a user
  now,         \* Date.now(), in ticks of 24 hours
  localStorage,   \* the two keys of the saved locations cache
  server,      \* the rows of saved_locations, newest first
  ids,         \* the numbers next used for a temporary id and for a row id
  requests,    \* the calls of savedLocationsService made so far, as a bag
  tasks,       \* the calls of manager methods in progress, one per caller
  calls        \* how many manager methods the application has called

\* The state of the process's environment, of the timezone-handler module
\* and of the saved locations manager with its device and server.
envVars == <<sysZone, sysOffset, hourCycle>>
managerVars == <<online, user, now, localStorage, server, ids, requests, tasks, calls>>
moduleVars == <<timezoneCache, managerVars>>

vars == <<envVars, pc, call, result, moduleVars>>

\* A zone without transitions, sysOffset minutes from UTC the whole year.
FixedOffsetZone == "Etc/Fixed"

\* A value that may be null.
Null == [null |-> TRUE]
Some(v) == [null |-> FALSE, v |-> v]

\* The callers of the manager: the application, the manager's own 'online'
\* listener and the 'online' handler of the useSavedLocations hook.
TaskIds == {"app", "listener", "hook"}

\* A caller with no call in progress.
IdleTask ==
  [op |-> "none", pc |-> "idle", arg |-> Null, data |-> Null, queue |-> <<>>,
   result |-> [kind |-> "none"]]

\* localStorage with neither key set.
EmptyStorage == [cached |-> Null, expiry |-> Null]

\* The manager after import on a device that is online with nobody signed in,
\* an empty localStorage and an empty table.
ManagerLoaded ==
  /\ online = TRUE /\ user = FALSE /\ now = 0
  /\ localStorage = EmptyStorage
  /\ server = <<>>
  /\ ids = [temp |-> 1, row |-> 1]
  /\ requests = EmptyBag
  /\ tasks = [t \in TaskIds |-> IdleTask]
  /\ calls = 0

\* The module state after import: const timezoneCache = new Map(), and
\* export const savedLocationsManager = new SavedLocationsManager().
EmptyMap == [k \in {} |-> ""]
ModuleLoaded == timezoneCache = EmptyMap /\ ManagerLoaded

-----------------------------------------------------------------------------
(* JavaScript numbers *)

\* Units of one degree (and of one minute) in the fixed-point representation.
DegUnit == 100

\* The fixed-point value of 1.0 for sines, cosines and tangents.
One == 10000

\* The Number NaN: every comparison with it is false.
NaN == -999999999

isNaN(x) == x = NaN

NumLt(a, b) == ~isNaN(a) /\ ~isNaN(b) /\ a < b
NumGt(a, b) == ~isNaN(a) /\ ~isNaN(b) /\ a > b
NumLe(a, b) == ~isNaN(a) /\ ~isNaN(b) /\ a <= b
NumGe(a, b) == ~isNaN(a) /\ ~isNaN(b) /\ a >= b

Abs(x) == IF x < 0 THEN -x ELSE x

\* a / b rounded to the nearest integer (b > 0), halves away from zero.
RoundDiv(a, b) ==
  IF a >= 0 THEN (2 * a + b) \div (2 * b) ELSE -((2 * (-a) + b) \div (2 * b))

\* a / b for either sign of b (b # 0), rounded to the nearest integer.
SDiv(a, b) == IF b > 0 THEN RoundDiv(a, b) ELSE RoundDiv(-a, -b)

\* ToIntegerOrInfinity(a / b): the quotient truncated toward zero (b > 0).
TruncDiv(a, b) == IF a >= 0 THEN a \div b ELSE -((-a) \div b)

\* The % operator: the remainder has the sign of the dividend.
JsMod(a, m) == IF a >= 0 THEN a % m ELSE -((-a) % m)

\* Math.sin of whole degrees 0..90, in units of 1/One.
SinTab ==
  << 0,   175,   349,   523,   698,   872,  1045,  1219,  1392,  1564,
      1736,  1908,  2079,  2250,  2419,  2588,  2756,  2924,  3090,  3256,
      3420,  3584,  3746,  3907,  4067,  4226,  4384,  4540,  4695,  4848,
      5000,  5150,  5299,  5446,  5592,  5736,  5878,  6018,  6157,  6293,
      6428,  6561,  6691,  6820,  6947,  7071,  7193,  7314,  7431,  7547,
      7660,  7771,  7880,  7986,  8090,  8192,  8290,  8387,  8480,  8572,
      8660,  8746,  8829,  8910,  8988,  9063,  9135,  9205,  9272,  9336,
      9397,  9455,  9511,  9563,  9613,  9659,  9703,  9744,  9781,  9816,
      9848,  9877,  9903,  9925,  9945,  9962,  9976,  9986,  9994,  9998,
     10000 >>

\* Math.tan of whole degrees 0..45, in units of 1/One.
TanTab ==
  << 0,   175,   349,   524,   699,   875,  1051,  1228,  1405,  1584,
      1763,  1944,  2126,  2309,  2493,  2679,  2867,  3057,  3249,  3443,
      3640,  3839,  4040,  4245,  4452,  4663,  4877,  5095,  5317,  5543,
      5774,  6009,  6249,  6494,  6745,  7002,  7265,  7536,  7813,  8098,
      8391,  8693,  9004,  9325,  9657, 10000 >>

\* The table value at angle a (0 <= a <= (Len(tab)-1) degrees), interpolated.
Interp(tab, a) ==
  LET k == a \div DegUnit
      r == a % DegUnit
  IN  IF r = 0 THEN tab[k + 1]
      ELSE tab[k + 1] + RoundDiv((tab[k + 2] - tab[k + 1]) * r, DegUnit)

\* The angle in 0..(Len(tab)-1) degrees at which the table takes the value x.
InvInterp(tab, x) ==
  IF x >= tab[Len(tab)] THEN (Len(tab) - 1) * DegUnit
  ELSE LET k == CHOOSE j \in 0 .. (Len(tab) - 2) : tab[j + 1] <= x /\ x < tab[j + 2]
       IN  k * DegUnit + RoundDiv((x - tab[k + 1]) * DegUnit, tab[k + 2] - tab[k + 1])

\* The angle in [0, 90] degrees whose sine has the magnitude of sin(m), for m
\* in [0, 360) degrees.
ReferenceAngle(m) ==
  IF m <= 90 * DegUnit THEN m
  ELSE IF m <= 180 * DegUnit THEN 180 * DegUnit - m
  ELSE IF m <= 270 * DegUnit THEN m - 180 * DegUnit
  ELSE 360 * DegUnit - m

\* Math.sin(toRadians(a)), a in hundredths of a degree.
Sin(a) ==
  (IF a % (360 * DegUnit) <= 180 * DegUnit THEN 1 ELSE -1)
  * Interp(SinTab, ReferenceAngle(a % (360 * DegUnit)))

\* Math.cos(toRadians(a)).
Cos(a) == Sin(a + 90 * DegUnit)

\* Math.tan(toRadians(a)), for an angle whose cosine is not zero.
Tan(a) == SDiv(Sin(a) * One, Cos(a))

\* toDegrees(Math.asin(x / One)): NaN outside [-1, 1].
Asin(x) ==
  IF isNaN(x) \/ x > One \/ x < -One THEN NaN
  ELSE (IF x >= 0 THEN 1 ELSE -1) * InvInterp(SinTab, Abs(x))

\* toDegrees(Math.acos(x / One)), for x in [-1, 1].
Acos(x) == 90 * DegUnit - Asin(x)

\* toDegrees(Math.atan(small / large)) for 0 <= small <= large, large > 0.
AtanOfRatio(small, large) == InvInterp(TanTab, RoundDiv(small * One, large))

\* toDegrees(Math.atan2(ay, ax)) for ay >= 0 and ax >= 0.
Atan2Quadrant(ay, ax) ==
  IF ax = 0 /\ ay = 0 THEN 0
  ELSE IF ay <= ax THEN AtanOfRatio(ay, ax)
  ELSE 90 * DegUnit - AtanOfRatio(ax, ay)

\* The angle of the first quadrant placed in the quadrant of (x, y).
PlaceQuadrant(base, y, x) ==
  (IF y >= 0 THEN 1 ELSE -1) * (IF x >= 0 THEN base ELSE 180 * DegUnit - base)

\* toDegrees(Math.atan2(y, x)): in [-180, 180] degrees.
Atan2(y, x) == PlaceQuadrant(Atan2Quadrant(Abs(y), Abs(x)), y, x)

-----------------------------------------------------------------------------
(* JavaScript Date *)

MsPerDay == 24 * 60 * 60 * 1000

\* An instant: whole days since 1970-01-01T00:00Z and the milliseconds of the day.
Instant(d, m) == [day |-> d, ms |-> m]

\* new Date(t.getTime() + k).
AddMs(t, k) ==
  LET total == t.ms + k
  IN  Instant(t.day + (total \div MsPerDay), total % MsPerDay)

\* a.getTime() - b.getTime().
DiffMs(a, b) == (a.day - b.day) * MsPerDay + (a.ms - b.ms)

\* a.getTime() < b.getTime().
Before(a, b) == a.day < b.day \/ (a.day = b.day /\ a.ms < b.ms)

\* a.getTime() <= b.getTime().
NotAfter(a, b) == ~Before(b, a)

\* MakeDay: the day number of the civil date year-month-day (month 1..12).
DaysFromCivil(year, month, dom) ==
  LET y   == IF month <= 2 THEN year - 1 ELSE year
      era == y \div 400
      yoe == y - era * 400
      mp  == IF month > 2 THEN month - 3 ELSE month + 9
      doy == (153 * mp + 2) \div 5 + dom - 1
      doe == yoe * 365 + yoe \div 4 - yoe \div 100 + doy
  IN  era * 146097 + doe - 719468

\* YearFromTime, MonthFromTime, DateFromTime of a day number (month 1..12):
\* from the day of the 400-year era to the year of the era, the day of the
\* year counted from 1 March, and the month counted from March.
CivilOfMonth(y, doy, mp) ==
  [year  |-> IF mp < 10 THEN y ELSE y + 1,
   month |-> IF mp < 10 THEN mp + 3 ELSE mp - 9,
   dom   |-> doy - (153 * mp + 2) \div 5 + 1]

CivilOfDayOfYear(y, doy) == CivilOfMonth(y, doy, (5 * doy + 2) \div 153)

CivilOfYearOfEra(era, doe, yoe) ==
  CivilOfDayOfYear(yoe + era * 400, doe - (365 * yoe + yoe \div 4 - yoe \div 100))

CivilOfDayOfEra(era, doe) ==
  CivilOfYearOfEra(era, doe,
                   (doe - doe \div 1460 + doe \div 36524 - doe \div 146096) \div 365)

CivilFromDays(z) ==
  CivilOfDayOfEra((z + 719468) \div 146097, (z + 719468) % 146097)

getUTCFullYear(t) == CivilFromDays(t.day).year
getUTCMonth(t)    == CivilFromDays(t.day).month - 1
getUTCDate(t)     == CivilFromDays(t.day).dom
getUTCHours(t)    == t.ms \div 3600000
getUTCMinutes(t)  == (t.ms \div 60000) % 60
getUTCSeconds(t)  == (t.ms \div 1000) % 60
getUTCMilliseconds(t) == t.ms % 1000

\* LocalTime(t): the instant whose UTC fields are t's fields in the zone of offset off.
LocalTime(t, off) == AddMs(t, off * 60000)

\* The local fields of t in the zone the process runs in.
getFullYear(t, off) == getUTCFullYear(LocalTime(t, off))
getMonth(t, off)    == getUTCMonth(LocalTime(t, off))
getDate(t, off)     == getUTCDate(LocalTime(t, off))

\* new Date(year, month, dom, h, mi, s) in the zone of offset off (month 0..11).
NewLocalDate(year, month, dom, h, mi, s, off) ==
  AddMs(Instant(DaysFromCivil(year, month + 1, dom), 0),
        h * 3600000 + mi * 60000 + s * 1000 - off * 60000)

\* t.setUTCMinutes(m / DegUnit): the minutes field replaced by the truncated
\* value, the UTC day, hour, seconds and milliseconds of t kept.
setUTCMinutes(t, m) ==
  AddMs(Instant(t.day, getUTCHours(t) * 3600000 + getUTCSeconds(t) * 1000
                       + getUTCMilliseconds(t)),
        TruncDiv(m, DegUnit) * 60000)

\* t.setUTCHours(h, mi, s, ms).
setUTCHours(t, h, mi, s, ms) ==
  Instant(t.day, h * 3600000 + mi * 60000 + s * 1000 + ms)

\* A value passed where a Date is expected: a Date (valid or Invalid Date) or not.
DateValue(t) == [type |-> "Date", valid |-> TRUE, t |-> t]
InvalidDate == [type |-> "Date", valid |-> FALSE, t |-> Instant(0, 0)]
NotADate == [type |-> "string", valid |-> FALSE, t |-> Instant(0, 0)]

\* A value passed where a number is expected.
NumberValue(v) == [type |-> "number", v |-> v]
NotANumber == [type |-> "string", v |-> 0]

\* What a call produced.
Return(v) == [kind |-> "return", value |-> v]
Throw(msg) == [kind |-> "throw", message |-> msg]

-----------------------------------------------------------------------------
(* solar-calculator *)

\* The tests of validateCoordinates on numbers held in units of 1/unit degree.
CoordinatesValid(latitude, longitude, unit) ==
  IF latitude.type # "number" \/ longitude.type # "number" THEN FALSE
  ELSE IF isNaN(latitude.v) \/ isNaN(longitude.v) THEN FALSE
  ELSE /\ latitude.v >= -90 * unit /\ latitude.v <= 90 * unit
       /\ longitude.v >= -180 * unit /\ longitude.v <= 180 * unit

validateCoordinates(latitude, longitude) == CoordinatesValid(latitude, longitude, DegUnit)

\* jdn of the code for year y = year - a and month m = month + 12 a - 3.
JulianDayNumber(day, m, y) ==
  day + (153 * m + 2) \div 5 + 365 * y + y \div 4 - y \div 100 + y \div 400 - 32045

\* a = floor((14 - month) / 12), then y and m from it.
JulianDayOfMonth(year, month, day, a) ==
  JulianDayNumber(day, month + 12 * a - 3, year - a)

JulianDayOfCivil(civil) ==
  JulianDayOfMonth(civil.year, civil.month, civil.dom, (14 - civil.month) \div 12)

\* The Julian day jdn + sec / 86400 of an instant, held as the pair: the code
\* takes y = year - a (not year + 4800 - a), and so does the model.
getJulianDay(date) ==
  [jdn |-> JulianDayOfCivil(CivilFromDays(date.day)),
   sec |-> (getUTCHours(date) - 12) * 3600 + getUTCMinutes(date) * 60
           + getUTCSeconds(date)]

\* base + (whole + frac / 100000) * n in hundredths of a degree, where
\* n = julianDay - 2451545.0 days; whole and frac give the rate per day.
MeanAngle(base, whole, frac, julianDay) ==
  LET nd    == julianDay.jdn - 2451545
      mag   == Abs(nd)
      days  == whole * mag + RoundDiv(frac * (mag \div 1000), 100)
               + RoundDiv(frac * (mag % 1000), 100000)
      part  == RoundDiv((whole * 100 + frac \div 1000) * julianDay.sec, 8640000)
  IN  base + (IF nd >= 0 THEN days ELSE -days) + part

\* L = (280.460 + 0.9856474 * n) % 360.
MeanLongitude(julianDay) ==
  JsMod(MeanAngle(28046, 98, 56474, julianDay), 360 * DegUnit)

\* g = (357.528 + 0.9856003 * n) % 360, in degrees.
MeanAnomaly(julianDay) ==
  JsMod(MeanAngle(35753, 98, 56003, julianDay), 360 * DegUnit)

\* lambda = L + 1.915 sin g + 0.020 sin 2g, in degrees.
EclipticLongitudeOf(L, g) ==
  L + RoundDiv(1915 * Sin(g), 10 * One) + RoundDiv(2 * Sin(2 * g), One)

EclipticLongitude(julianDay) ==
  EclipticLongitudeOf(MeanLongitude(julianDay), MeanAnomaly(julianDay))

\* The obliquity of the ecliptic, 23.439 degrees.
Obliquity == 2344

\* alpha = atan2(cos(23.439) sin(lambda), cos(lambda)), in degrees.
RightAscension(lambda) ==
  Atan2(RoundDiv(Cos(Obliquity) * Sin(lambda), One), Cos(lambda))

\* The equation of time in hundredths of a minute: E = 4 (L - alpha).
getEquationOfTime(julianDay) ==
  4 * (MeanLongitude(julianDay) - RightAscension(EclipticLongitude(julianDay)))

\* The solar declination in hundredths of a degree.
getSolarDeclination(julianDay) ==
  Asin(RoundDiv(Sin(Obliquity) * Sin(EclipticLongitude(julianDay)), One))

\* The argument of Math.asin for the elevation.
ElevationSine(latitude, declination, hourAngle) ==
  RoundDiv(Sin(declination) * Sin(latitude), One)
  + RoundDiv(RoundDiv(Cos(declination) * Cos(latitude), One) * Cos(hourAngle), One)

\* azimuth = toDegrees(azimuthRad) + 180, wrapped by the two tests.
WrapAzimuth(raw) ==
  LET a1 == raw + 180 * DegUnit
      a2 == IF a1 >= 360 * DegUnit THEN a1 - 360 * DegUnit ELSE a1
  IN  IF a2 < 0 THEN a2 + 360 * DegUnit ELSE a2

\* The raw azimuth toDegrees(Math.atan2(...)).
AzimuthRaw(latitude, declination, hourAngle) ==
  Atan2(Sin(hourAngle),
        RoundDiv(Cos(hourAngle) * Sin(latitude), One)
        - RoundDiv(Tan(declination) * Cos(latitude), One))

\* The hour angle, in hundredths of a degree, at an instant and longitude.
HourAngle(longitude, date, eqTime) ==
  RoundDiv((getUTCHours(date) * 60 + getUTCMinutes(date)) * DegUnit
           + RoundDiv(getUTCSeconds(date) * DegUnit, 60)
           + eqTime + 4 * longitude, 4)
  - 180 * DegUnit

HourAngleAt(longitude, date) ==
  HourAngle(longitude, date, getEquationOfTime(getJulianDay(date)))

\* distance = 1.00014 - 0.01671 cos g - 0.00014 cos 2g, in units of 0.00001 AU.
DistanceOf(g) == 100014 - RoundDiv(1671 * Cos(g), One) - RoundDiv(14 * Cos(2 * g), One)

SunDistance(julianDay) == DistanceOf(MeanAnomaly(julianDay))

\* The object calculateSunPosition returns.
SunPositionOf(latitude, declination, hourAngle, distance) ==
  [azimuth   |-> WrapAzimuth(AzimuthRaw(latitude, declination, hourAngle)),
   elevation |-> Asin(ElevationSine(latitude, declination, hourAngle)),
   distance  |-> distance]

calculateSunPosition(latitude, longitude, date) ==
  IF ~validateCoordinates(latitude, longitude)
  THEN Throw("Invalid coordinates provided")
  ELSE IF ~(date.type = "Date") \/ ~date.valid
  THEN Throw("Invalid date provided")
  ELSE Return(SunPositionOf(latitude.v,
                            getSolarDeclination(getJulianDay(date.t)),
                            HourAngleAt(longitude.v, date.t),
                            SunDistance(getJulianDay(date.t))))

\* num / den where den >= 0 stands for a positive double: Math.cos(Math.PI / 2)
\* is a tiny positive number, so a quotient by it is infinite with num's sign.
Infinity == 1000 * One
Quotient(num, den) ==
  IF den = 0 THEN (IF num > 0 THEN Infinity ELSE IF num < 0 THEN -Infinity ELSE 0)
  ELSE SDiv(num * One, den)

\* new Date(date.getFullYear(), date.getMonth(), date.getDate()): midnight of
\* date's local day in the zone the process runs in.
DateOnly(date) ==
  NewLocalDate(getFullYear(date, sysOffset), getMonth(date, sysOffset),
               getDate(date, sysOffset), 0, 0, 0, sysOffset)

\* (sin(-0.833 deg) - sin(lat) sin(decl)) / (cos(lat) cos(decl)), the cosine of
\* the hour angle at which the sun's centre stands 0.833 degrees below the horizon.
CosHourAngle(latitude, declination) ==
  Quotient(Sin(-83) - RoundDiv(Sin(latitude) * Sin(declination), One),
           RoundDiv(Cos(latitude) * Cos(declination), One))

\* timeOffset = eqTime + 4 * longitude, in hundredths of a minute.
TimeOffset(longitude, dateOnly) ==
  getEquationOfTime(getJulianDay(dateOnly)) + 4 * longitude

\* The two polar tests, then dateOnly with its UTC minutes set to
\* 720 + direction * 4 * hourAngle - timeOffset (direction -1: sunrise, 1: sunset).
HorizonCrossing(dateOnly, cosHourAngle, timeOffset, direction) ==
  IF cosHourAngle > One THEN Return(Null)
  ELSE IF cosHourAngle < -One THEN Return(Null)
  ELSE Return(Some(setUTCMinutes(dateOnly,
                                 720 * DegUnit + direction * 4 * Acos(cosHourAngle)
                                 - timeOffset)))

\* The crossing on the day that starts at dateOnly.
CrossingOnDay(latitude, longitude, dateOnly, direction) ==
  HorizonCrossing(dateOnly,
                  CosHourAngle(latitude, getSolarDeclination(getJulianDay(dateOnly))),
                  TimeOffset(longitude, dateOnly), direction)

calculateSunrise(latitude, longitude, date) ==
  IF ~validateCoordinates(latitude, longitude)
  THEN Throw("Invalid coordinates provided")
  ELSE CrossingOnDay(latitude.v, longitude.v, DateOnly(date), -1)

\* dateOnly with its UTC minutes set to 720 - timeOffset.
NoonOnDay(longitude, dateOnly) ==
  setUTCMinutes(dateOnly, 720 * DegUnit - TimeOffset(longitude, dateOnly))

\* Faulty variant for C8: calculateSunset without the polar-day test.
calculateSunsetNoPolarDay(latitude, longitude, date) ==
  IF ~validateCoordinates(latitude, longitude)
  THEN Throw("Invalid coordinates provided")
  ELSE IF CosHourAngle(latitude.v,
                       getSolarDeclination(getJulianDay(DateOnly(date)))) > One
  THEN Return(Null)
  ELSE Return(Some(NoonOnDay(longitude.v, DateOnly(date))))

calculateSunset(latitude, longitude, date) ==
  IF ~validateCoordinates(latitude, longitude)
  THEN Throw("Invalid coordinates provided")
  ELSE CrossingOnDay(latitude.v, longitude.v, DateOnly(date), 1)

calculateSolarNoon(latitude, longitude, date) ==
  IF ~validateCoordinates(latitude, longitude)
  THEN Throw("Invalid coordinates provided")
  ELSE Return(NoonOnDay(longitude.v, DateOnly(date)))

normalizeDate(date) ==
  IF date.type # "Date" THEN Throw("Input must be a Date object")
  ELSE IF ~date.valid THEN Throw("Invalid date provided")
  ELSE IF getFullYear(date.t, sysOffset) < 1000 \/ getFullYear(date.t, sysOffset) > 3000
  THEN Throw("Date must be between years 1000 and 3000")
  ELSE Return(date.t)

-----------------------------------------------------------------------------
(* sun-times *)

NumSub(a, b) == IF isNaN(a) \/ isNaN(b) THEN NaN ELSE a - b
NumAbs(a) == IF isNaN(a) THEN NaN ELSE Abs(a)

\* Faulty variant for C28: the midpoint replaced by the start of the interval.
MidTimeAtStart(startTime, endTime) == startTime

\* new Date((startTime.getTime() + endTime.getTime()) / 2): a half millisecond
\* is cut toward zero, that is toward 1970.
MidTime(startTime, endTime) ==
  AddMs(startTime,
        IF startTime.day >= 0 THEN DiffMs(endTime, startTime) \div 2
        ELSE (DiffMs(endTime, startTime) + 1) \div 2)

\* calculateSunPosition(latitude, longitude, time).elevation.
ElevationAt(latitude, longitude, time) ==
  calculateSunPosition(latitude, longitude, DateValue(time)).value.elevation

maxIterations == 50

\* The while loop of calculateTimeForElevation: it returns midTime from inside
\* the loop, or leaves the loop with the last startTime and endTime.
RECURSIVE BisectionLoop(_, _, _, _, _, _, _)

\* One pass through the body of the loop once midTime and the elevation there
\* are known: the return of midTime, or the next startTime and endTime.
LoopIteration(elevation, rising, startTime, endTime, iterations, midTime, sunPosElevation) ==
  IF NumLt(NumAbs(NumSub(sunPosElevation, elevation)) * 100, DegUnit)
  THEN [returned |-> TRUE, time |-> midTime, iterations |-> iterations]
  ELSE IF rising
  THEN IF NumLt(sunPosElevation, elevation)
       THEN [returned |-> FALSE, startTime |-> midTime, endTime |-> endTime,
             iterations |-> iterations + 1]
       ELSE [returned |-> FALSE, startTime |-> startTime, endTime |-> midTime,
             iterations |-> iterations + 1]
  ELSE IF NumGt(sunPosElevation, elevation)
       THEN [returned |-> FALSE, startTime |-> midTime, endTime |-> endTime,
             iterations |-> iterations + 1]
       ELSE [returned |-> FALSE, startTime |-> startTime, endTime |-> midTime,
             iterations |-> iterations + 1]

\* The body of the loop, and the loop again unless the body returned.
BisectionBody(latitude, longitude, elevation, rising, startTime, endTime, iterations, midTime, sunPosElevation) ==
  LET next == LoopIteration(elevation, rising, startTime, endTime, iterations,
                            midTime, sunPosElevation)
  IN  IF next.returned THEN next
      ELSE BisectionLoop(latitude, longitude, elevation, rising,
                         next.startTime, next.endTime, next.iterations)

BisectionLoop(latitude, longitude, elevation, rising, startTime, endTime, iterations) ==
  IF iterations < maxIterations /\ DiffMs(endTime, startTime) > 60000
  THEN BisectionBody(latitude, longitude, elevation, rising, startTime, endTime,
                     iterations, MidTime(startTime, endTime),
                     ElevationAt(latitude, longitude, MidTime(startTime, endTime)))
  ELSE [returned |-> FALSE, startTime |-> startTime, endTime |-> endTime,
        iterations |-> iterations]

\* Faulty variant for C4: the rising search in the afternoon window and the setting
\* search in the morning window.
SearchWindowSwapped(date, rising) ==
  IF ~rising
  THEN [startTime |-> setUTCHours(DateOnly(date), 0, 0, 0, 0),
        endTime   |-> setUTCHours(DateOnly(date), 12, 0, 0, 0)]
  ELSE [startTime |-> setUTCHours(DateOnly(date), 12, 0, 0, 0),
        endTime   |-> setUTCHours(DateOnly(date), 23, 59, 59, 999)]

\* The search window of calculateTimeForElevation.
SearchWindow(date, rising) ==
  IF rising
  THEN [startTime |-> setUTCHours(DateOnly(date), 0, 0, 0, 0),
        endTime   |-> setUTCHours(DateOnly(date), 12, 0, 0, 0)]
  ELSE [startTime |-> setUTCHours(DateOnly(date), 12, 0, 0, 0),
        endTime   |-> setUTCHours(DateOnly(date), 23, 59, 59, 999)]

\* Faulty variant for C13: the instant after the loop returned untested.
FinalCheckSkipped(elevation, finalTime, finalElevation) == Return(Some(finalTime))

\* The final test: finalTime if the elevation there is within 1 degree.
FinalCheck(elevation, finalTime, finalElevation) ==
  IF NumLt(NumAbs(NumSub(finalElevation, elevation)), DegUnit)
  THEN Return(Some(finalTime))
  ELSE Return(Null)

\* What calculateTimeForElevation returns once the loop has ended.
AfterLoop(latitude, longitude, elevation, loop) ==
  IF loop.returned THEN Return(Some(loop.time))
  ELSE FinalCheck(elevation, MidTime(loop.startTime, loop.endTime),
                  ElevationAt(latitude, longitude,
                              MidTime(loop.startTime, loop.endTime)))

\* The search between the two ends of a window.
SearchIn(latitude, longitude, elevation, rising, window) ==
  AfterLoop(latitude, longitude, elevation,
            BisectionLoop(latitude, longitude, elevation, rising,
                          window.startTime, window.endTime, 0))

calculateTimeForElevation(latitude, longitude, date, elevation, rising) ==
  IF ~validateCoordinates(latitude, longitude)
  THEN Throw("Invalid coordinates provided")
  ELSE SearchIn(latitude, longitude, elevation, rising, SearchWindow(date, rising))

\* The time, or null, that calculateTimeForElevation returns.
TimeForElevation(latitude, longitude, date, elevation, rising) ==
  calculateTimeForElevation(latitude, longitude, date, elevation, rising).value

\* The pair {start, end} of one window.
Window(start, end) == [start |-> start, end |-> end]

\* Faulty variant for C27: the morning of the golden hour searched from 6 degrees
\* to -6 degrees.
GoldenHourOnSwapped(latitude, longitude, normalizedDate) ==
  [morning |-> Window(TimeForElevation(latitude, longitude, normalizedDate, 6 * DegUnit, TRUE),
                      TimeForElevation(latitude, longitude, normalizedDate, -6 * DegUnit, TRUE)),
   evening |-> Window(TimeForElevation(latitude, longitude, normalizedDate, 6 * DegUnit, FALSE),
                      TimeForElevation(latitude, longitude, normalizedDate, -6 * DegUnit, FALSE))]

\* The body of calculateGoldenHour after normalizeDate.
GoldenHourOn(latitude, longitude, normalizedDate) ==
  [morning |-> Window(TimeForElevation(latitude, longitude, normalizedDate, -6 * DegUnit, TRUE),
                      TimeForElevation(latitude, longitude, normalizedDate, 6 * DegUnit, TRUE)),
   evening |-> Window(TimeForElevation(latitude, longitude, normalizedDate, 6 * DegUnit, FALSE),
                      TimeForElevation(latitude, longitude, normalizedDate, -6 * DegUnit, FALSE))]

calculateGoldenHour(latitude, longitude, date) ==
  IF ~validateCoordinates(latitude, longitude)
  THEN Throw("Invalid coordinates provided")
  ELSE IF normalizeDate(date).kind = "throw" THEN normalizeDate(date)
  ELSE Return(GoldenHourOn(latitude, longitude, normalizeDate(date).value))

\* The body of calculateBlueHour after normalizeDate.
BlueHourOn(latitude, longitude, normalizedDate) ==
  [morning |-> Window(TimeForElevation(latitude, longitude, normalizedDate, -12 * DegUnit, TRUE),
                      TimeForElevation(latitude, longitude, normalizedDate, -6 * DegUnit, TRUE)),
   evening |-> Window(TimeForElevation(latitude, longitude, normalizedDate, -6 * DegUnit, FALSE),
                      TimeForElevation(latitude, longitude, normalizedDate, -12 * DegUnit, FALSE))]

calculateBlueHour(latitude, longitude, date) ==
  IF ~validateCoordinates(latitude, longitude)
  THEN Throw("Invalid coordinates provided")
  ELSE IF normalizeDate(date).kind = "throw" THEN normalizeDate(date)
  ELSE Return(BlueHourOn(latitude, longitude, normalizeDate(date).value))

\* The object calculateTwilightPeriods returns.
TwilightPeriods(civilMorningStart, civilEveningEnd, nauticalMorningStart, nauticalEveningEnd, astronomicalMorningStart, astronomicalEveningEnd, sunrise, sunset) ==
  [civil |-> [morning |-> Window(civilMorningStart, sunrise),
              evening |-> Window(sunset, civilEveningEnd)],
   nautical |-> [morning |-> Window(nauticalMorningStart, civilMorningStart),
                 evening |-> Window(civilEveningEnd, nauticalEveningEnd)],
   astronomical |-> [morning |-> Window(astronomicalMorningStart, nauticalMorningStart),
                     evening |-> Window(nauticalEveningEnd, astronomicalEveningEnd)]]

\* The body of calculateTwilightPeriods after normalizeDate.
TwilightPeriodsOn(latitude, longitude, normalizedDate) ==
  TwilightPeriods(
    TimeForElevation(latitude, longitude, normalizedDate, -6 * DegUnit, TRUE),
    TimeForElevation(latitude, longitude, normalizedDate, -6 * DegUnit, FALSE),
    TimeForElevation(latitude, longitude, normalizedDate, -12 * DegUnit, TRUE),
    TimeForElevation(latitude, longitude, normalizedDate, -12 * DegUnit, FALSE),
    TimeForElevation(latitude, longitude, normalizedDate, -18 * DegUnit, TRUE),
    TimeForElevation(latitude, longitude, normalizedDate, -18 * DegUnit, FALSE),
    calculateSunrise(latitude, longitude, normalizedDate).value,
    calculateSunset(latitude, longitude, normalizedDate).value)

calculateTwilightPeriods(latitude, longitude, date) ==
  IF ~validateCoordinates(latitude, longitude)
  THEN Throw("Invalid coordinates provided")
  ELSE IF normalizeDate(date).kind = "throw" THEN normalizeDate(date)
  ELSE Return(TwilightPeriodsOn(latitude, longitude, normalizeDate(date).value))

\* intervalMinutes is held in ticks: TicksPerMinute ticks make one minute, so
\* that an interval may be a fraction of a minute.
TicksPerMinute == 4

MsPerTick == 60000 \div TicksPerMinute

\* Faulty variant for C1: the loop condition minutes <= 1440 in place of minutes < 1440.
LoopMinutesInclusive(intervalMinutes) ==
  {minutes \in 0 .. (1440 * TicksPerMinute) : minutes % intervalMinutes = 0}

\* The values the loop variable of generateSunPath takes: minutes (in ticks)
\* starts at 0 and grows by intervalMinutes while minutes < 1440.
LoopMinutes(intervalMinutes) ==
  {minutes \in 0 .. (1440 * TicksPerMinute - 1) : minutes % intervalMinutes = 0}

\* The point pushed for currentTime.
PathPoint(currentTime, sunPosition) ==
  [time      |-> currentTime,
   azimuth   |-> sunPosition.azimuth,
   elevation |-> sunPosition.elevation,
   distance  |-> sunPosition.distance]

\* The for loop of generateSunPath: one point pushed for each value of minutes.
SunPathLoop(latitude, longitude, startTime, intervalMinutes) ==
  [k \in 1 .. Cardinality(LoopMinutes(intervalMinutes)) |->
     PathPoint(AddMs(startTime, (k - 1) * intervalMinutes * MsPerTick),
               calculateSunPosition(
                 latitude, longitude,
                 DateValue(AddMs(startTime, (k - 1) * intervalMinutes * MsPerTick))).value)]

generateSunPath(latitude, longitude, date, intervalMinutes) ==
  IF ~validateCoordinates(latitude, longitude)
  THEN Throw("Invalid coordinates provided")
  ELSE IF intervalMinutes <= 0 \/ intervalMinutes > 1440 * TicksPerMinute
  THEN Throw("Interval must be between 1 and 1440 minutes")
  ELSE IF normalizeDate(date).kind = "throw" THEN normalizeDate(date)
  ELSE Return(SunPathLoop(latitude, longitude, DateOnly(normalizeDate(date).value),
                          intervalMinutes))

\* dayLength, in hours, is held in minutes: the two instants carry the seconds
\* of the same dateOnly, so they differ by whole minutes.
DayLength(sunrise, sunset) ==
  IF ~sunrise.null /\ ~sunset.null
  THEN Some(DiffMs(sunset.v, sunrise.v) \div 60000)
  ELSE Null

\* The object calculateSunTimes returns.
SunTimes(normalizedDate, sunrise, sunset, solarNoon, goldenHour, blueHour, twilight) ==
  [date |-> normalizedDate, sunrise |-> sunrise, sunset |-> sunset,
   solarNoon |-> solarNoon, dayLength |-> DayLength(sunrise, sunset),
   goldenHour |-> goldenHour, blueHour |-> blueHour, twilight |-> twilight]

\* The body of calculateSunTimes after normalizeDate.
SunTimesOn(latitude, longitude, normalizedDate) ==
  SunTimes(normalizedDate,
           calculateSunrise(latitude, longitude, normalizedDate).value,
           calculateSunset(latitude, longitude, normalizedDate).value,
           calculateSolarNoon(latitude, longitude, normalizedDate).value,
           calculateGoldenHour(latitude, longitude, DateValue(normalizedDate)).value,
           calculateBlueHour(latitude, longitude, DateValue(normalizedDate)).value,
           calculateTwilightPeriods(latitude, longitude, DateValue(normalizedDate)).value)

calculateSunTimes(latitude, longitude, date) ==
  IF ~validateCoordinates(latitude, longitude)
  THEN Throw("Invalid coordinates provided")
  ELSE IF normalizeDate(date).kind = "throw" THEN normalizeDate(date)
  ELSE Return(SunTimesOn(latitude, longitude, normalizeDate(date).value))

\* Faulty variant for C9: the status chain with >= in place of >.
DayNightStatusInclusive(elevation) ==
  IF NumGe(elevation, 0) THEN "day"
  ELSE IF NumGe(elevation, -6 * DegUnit) THEN "civil_twilight"
  ELSE IF NumGe(elevation, -12 * DegUnit) THEN "nautical_twilight"
  ELSE IF NumGe(elevation, -18 * DegUnit) THEN "astronomical_twilight"
  ELSE "night"

\* The status chain of getDayNightStatus.
DayNightStatus(elevation) ==
  IF NumGt(elevation, 0) THEN "day"
  ELSE IF NumGt(elevation, -6 * DegUnit) THEN "civil_twilight"
  ELSE IF NumGt(elevation, -12 * DegUnit) THEN "nautical_twilight"
  ELSE IF NumGt(elevation, -18 * DegUnit) THEN "astronomical_twilight"
  ELSE "night"

\* The object getDayNightStatus returns.
StatusOf(sunPosition) ==
  [status |-> DayNightStatus(sunPosition.elevation),
   sunPosition |-> sunPosition,
   isVisible |-> NumGt(sunPosition.elevation, 0)]

getDayNightStatus(latitude, longitude, date) ==
  IF ~validateCoordinates(latitude, longitude)
  THEN Throw("Invalid coordinates provided")
  ELSE IF normalizeDate(date).kind = "throw" THEN normalizeDate(date)
  ELSE Return(StatusOf(calculateSunPosition(
                         latitude, longitude,
                         DateValue(normalizeDate(date).value)).value))

-----------------------------------------------------------------------------
(* timezone-handler *)

\* The coordinates of a lookup are held in thousandths of a degree, finer
\* than the two decimals of the cache key.
KeyUnit == 1000

\* A longitude band of a region and the identifier returned inside it.
Band(lonMin, lonMax, zone) ==
  [lonMin |-> lonMin * KeyUnit, lonMax |-> lonMax * KeyUnit, zone |-> zone]

Region(latMin, latMax, lonMin, lonMax, bands) ==
  [latMin |-> latMin * KeyUnit, latMax |-> latMax * KeyUnit,
   lonMin |-> lonMin * KeyUnit, lonMax |-> lonMax * KeyUnit, bands |-> bands]

\* The regions of getTimezoneFromCoordinates in the order the code tests them:
\* North America, Europe, Asia, Australia, South America, Africa.
Regions ==
  << Region(25, 70, -170, -50,
            << Band(-130, -110, "America/Los_Angeles"), Band(-110, -100, "America/Denver"),
               Band(-100, -80, "America/Chicago"), Band(-80, -65, "America/New_York"),
               Band(-170, -130, "Pacific/Honolulu") >>),
     Region(35, 70, -10, 40,
            << Band(-10, 5, "Europe/London"), Band(5, 15, "Europe/Paris"),
               Band(15, 25, "Europe/Berlin"), Band(25, 40, "Europe/Moscow") >>),
     Region(10, 70, 60, 180,
            << Band(60, 90, "Asia/Kolkata"), Band(90, 120, "Asia/Shanghai"),
               Band(120, 150, "Asia/Tokyo") >>),
     Region(-45, -10, 110, 180,
            << Band(110, 130, "Australia/Perth"), Band(130, 145, "Australia/Adelaide"),
               Band(145, 155, "Australia/Sydney") >>),
     Region(-60, 15, -85, -30,
            << Band(-85, -65, "America/Lima"), Band(-65, -45, "America/Sao_Paulo"),
               Band(-45, -30, "America/Argentina/Buenos_Aires") >>),
     Region(-35, 35, -20, 50,
            << Band(-20, 10, "Africa/Lagos"), Band(10, 30, "Africa/Cairo"),
               Band(30, 50, "Africa/Nairobi") >>) >>

\* The outer test of a region: its bounding box, edges included.
InBox(region, latitude, longitude) ==
  /\ latitude >= region.latMin /\ latitude <= region.latMax
  /\ longitude >= region.lonMin /\ longitude <= region.lonMax

\* The inner tests of a region, in order: the first band that holds the
\* longitude returns; Null when none does and control leaves the region's block.
RECURSIVE FirstBand(_, _, _)
FirstBand(bands, longitude, i) ==
  IF i > Len(bands) THEN Null
  ELSE IF longitude >= bands[i].lonMin /\ longitude <= bands[i].lonMax
  THEN Some(bands[i].zone)
  ELSE FirstBand(bands, longitude, i + 1)

\* A region's block: a return from inside it, or Null when control falls through.
RegionBlock(region, latitude, longitude) ==
  IF InBox(region, latitude, longitude) THEN FirstBand(region.bands, longitude, 1)
  ELSE Null

RECURSIVE FromRegion(_, _, _)
FromRegion(latitude, longitude, r) ==
  IF r > Len(Regions) THEN Null
  ELSE IF RegionBlock(Regions[r], latitude, longitude).null
  THEN FromRegion(latitude, longitude, r + 1)
  ELSE RegionBlock(Regions[r], latitude, longitude)

getTimezoneFromCoordinates(latitude, longitude) == FromRegion(latitude, longitude, 1)

\* Intl.DateTimeFormat().resolvedOptions().timeZone.
getTimezoneFromBrowser == sysZone

\* x.toFixed(2): the number rounded to hundredths of a degree.
toFixed2(x) == RoundDiv(x, KeyUnit \div DegUnit)

\* `${latitude.toFixed(2)},${longitude.toFixed(2)}`
cacheKey(latitude, longitude) == <<toFixed2(latitude), toFixed2(longitude)>>

\* The zone the lookup settles on when the key is not cached.
LookedUp(timezone) == IF timezone.null THEN getTimezoneFromBrowser ELSE timezone.v

\* The value getTimezoneForCoordinates resolves or rejects with, given the cache.
getTimezoneForCoordinates(latitude, longitude, cache) ==
  IF ~CoordinatesValid(latitude, longitude, KeyUnit) THEN Throw("Invalid coordinates provided")
  ELSE IF cacheKey(latitude.v, longitude.v) \in DOMAIN cache
  THEN Return(cache[cacheKey(latitude.v, longitude.v)])
  ELSE Return(LookedUp(getTimezoneFromCoordinates(latitude.v, longitude.v)))

\* The cache after the call: timezoneCache.set(cacheKey, timezone) on a miss.
CacheAfter(latitude, longitude, cache) ==
  IF ~CoordinatesValid(latitude, longitude, KeyUnit) THEN cache
  ELSE IF cacheKey(latitude.v, longitude.v) \in DOMAIN cache THEN cache
  ELSE (cacheKey(latitude.v, longitude.v)
          :> LookedUp(getTimezoneFromCoordinates(latitude.v, longitude.v))) @@ cache

\* The zones the formatter knows, each with its standard offset, its offset
\* under daylight saving (minutes east of UTC) and, for the year 2024, the
\* instants between which daylight saving is in force (northern zones:
\* from dstStart to dstEnd; southern zones: before dstEnd and from dstStart).
ZoneTable ==
  "UTC" :> [std |-> 0, dst |-> 0, south |-> FALSE,
               dstStart |-> Instant(0, 0), dstEnd |-> Instant(0, 0)] @@
  "America/New_York" :>
              [std |-> -300, dst |-> -240, south |-> FALSE,
               dstStart |-> Instant(DaysFromCivil(2024, 3, 10), 7 * 3600000),
               dstEnd   |-> Instant(DaysFromCivil(2024, 11, 3), 6 * 3600000)] @@
  "America/Los_Angeles" :>
              [std |-> -480, dst |-> -420, south |-> FALSE,
               dstStart |-> Instant(DaysFromCivil(2024, 3, 10), 10 * 3600000),
               dstEnd   |-> Instant(DaysFromCivil(2024, 11, 3), 9 * 3600000)] @@
  "Europe/London" :>
              [std |-> 0, dst |-> 60, south |-> FALSE,
               dstStart |-> Instant(DaysFromCivil(2024, 3, 31), 1 * 3600000),
               dstEnd   |-> Instant(DaysFromCivil(2024, 10, 27), 1 * 3600000)] @@
  "Asia/Tokyo" :>
              [std |-> 540, dst |-> 540, south |-> FALSE,
               dstStart |-> Instant(0, 0), dstEnd |-> Instant(0, 0)] @@
  "Asia/Kolkata" :>
              [std |-> 330, dst |-> 330, south |-> FALSE,
               dstStart |-> Instant(0, 0), dstEnd |-> Instant(0, 0)] @@
  "America/Phoenix" :>
              [std |-> -420, dst |-> -420, south |-> FALSE,
               dstStart |-> Instant(0, 0), dstEnd |-> Instant(0, 0)] @@
  "Australia/Sydney" :>
              [std |-> 600, dst |-> 660, south |-> TRUE,
               dstStart |-> Instant(DaysFromCivil(2024, 10, 5), 16 * 3600000),
               dstEnd   |-> Instant(DaysFromCivil(2024, 4, 6), 16 * 3600000)]

KnownZones == DOMAIN ZoneTable

\* The offset from UTC, in minutes, that zone observes at instant t.
ZoneOffsetAt(zone, t) ==
  LET z == ZoneTable[zone]
      inside == NotAfter(z.dstStart, t) /\ Before(t, z.dstEnd)
      summer == IF z.south THEN Before(t, z.dstEnd) \/ NotAfter(z.dstStart, t)
                ELSE inside
  IN  IF z.std = z.dst THEN z.std ELSE IF summer THEN z.dst ELSE z.std

\* t with its milliseconds dropped: the formatted fields stop at the second.
WholeSeconds(t) == Instant(t.day, t.ms - (t.ms % 1000))

\* The fields formatToParts gives for utcDate in the zone, read back by
\* new Date(year, month - 1, day, hour, minute, second) in the zone the process
\* runs in.  With hour12: false the formatter of an h24 engine renders the
\* hour after midnight as 24 on the same date, which the constructor carries
\* into the next day.
FormatAndRebuild(utcDate, timezone) ==
  LET wall  == LocalTime(WholeSeconds(utcDate), ZoneOffsetAt(timezone, utcDate))
      hour  == IF hourCycle = "h24" /\ getUTCHours(wall) = 0 THEN 24
               ELSE getUTCHours(wall)
  IN  NewLocalDate(getUTCFullYear(wall), getUTCMonth(wall), getUTCDate(wall),
                   hour, getUTCMinutes(wall), getUTCSeconds(wall), sysOffset)

\* A value passed where a zone identifier is expected.
ZoneValue(id) == [type |-> "string", id |-> id]
NotAZone == [type |-> "undefined", id |-> ""]

convertUTCToTimezone(utcDate, timezone) ==
  IF utcDate.type # "Date" \/ ~utcDate.valid THEN Throw("Invalid date provided")
  ELSE IF timezone.type # "string" \/ timezone.id = ""
  THEN Throw("Invalid timezone provided")
  ELSE IF timezone.id \notin KnownZones
  THEN Return(utcDate.t)   \* the formatter throws; the catch returns a copy
  ELSE Return(FormatAndRebuild(utcDate.t, timezone.id))

\* The offset from UTC, in minutes, of the zone the process runs in at instant t.
SystemOffsetAt(t) ==
  IF sysZone = FixedOffsetZone THEN sysOffset ELSE ZoneOffsetAt(sysZone, t)

\* The instant whose local reading as standard time (tStd) or as daylight time
\* (tDst) is a given wall clock: the daylight reading where the zone is then on
\* daylight time, the standard one otherwise.  A wall clock that a transition
\* repeats or skips is read with the offset in force before the transition.
ResolveLocal(tStd, tDst, dst) ==
  IF ZoneOffsetAt(sysZone, tDst) = dst THEN tDst ELSE tStd

\* The instant at which the clocks of the process's zone show the wall clock.
LocalToUTC(wall) ==
  IF sysZone = FixedOffsetZone THEN AddMs(wall, -sysOffset * 60000)
  ELSE ResolveLocal(AddMs(wall, -ZoneTable[sysZone].std * 60000),
                    AddMs(wall, -ZoneTable[sysZone].dst * 60000),
                    ZoneTable[sysZone].dst)

\* new Date(date.toLocaleString('en-US', {timeZone: zone})): the wall clock of
\* date in the zone, to the second, parsed as a time of the zone the process
\* runs in.
ParseLocaleString(date, offset) == LocalToUTC(LocalTime(WholeSeconds(date), offset))

convertTimezoneToUTC(localDate, timezone) ==
  IF localDate.type # "Date" \/ ~localDate.valid THEN Throw("Invalid date provided")
  ELSE IF timezone.type # "string" \/ timezone.id = ""
  THEN Throw("Invalid timezone provided")
  ELSE IF timezone.id \notin KnownZones
  THEN Return(localDate.t)   \* toLocaleString throws; the catch returns a copy
  ELSE
    LET tempDate  == ParseLocaleString(localDate.t, 0)
        tempLocal == ParseLocaleString(localDate.t,
                                       ZoneOffsetAt(timezone.id, localDate.t))
        offset    == DiffMs(tempLocal, tempDate)
    IN  Return(AddMs(localDate.t, -offset))

Max(a, b) == IF a >= b THEN a ELSE b

\* getTimezoneOffset(date, timezone): (local.getTime() - utc.getTime()) / 60000,
\* a whole number of minutes since both parses stop at the second.
getTimezoneOffset(date, timezone) ==
  DiffMs(ParseLocaleString(date, ZoneOffsetAt(timezone, date)),
         ParseLocaleString(date, 0)) \div 60000

\* new Date(year, 0, 1) and new Date(year, 6, 1): local midnights of the process.
StartOfMonth(year, month) == LocalToUTC(Instant(DaysFromCivil(year, month + 1, 1), 0))

\* currentOffset < Math.max(janOffset, julyOffset)
OffsetBelowStandard(janOffset, julyOffset, currentOffset) ==
  currentOffset < Max(janOffset, julyOffset)

DSTActiveIn(date, timezone, year) ==
  OffsetBelowStandard(getTimezoneOffset(StartOfMonth(year, 0), timezone),
                      getTimezoneOffset(StartOfMonth(year, 6), timezone),
                      getTimezoneOffset(date, timezone))

isDSTActive(date, timezone) ==
  IF date.type # "Date" \/ ~date.valid THEN Throw("Invalid date provided")
  ELSE IF timezone.type # "string" \/ timezone.id = ""
  THEN Throw("Invalid timezone provided")
  ELSE IF timezone.id \notin KnownZones
  THEN Return(FALSE)   \* toLocaleString throws; the catch returns false
  ELSE Return(DSTActiveIn(date.t, timezone.id,
                          getFullYear(date.t, SystemOffsetAt(date.t))))

-----------------------------------------------------------------------------
(* geolocation-service *)

\* new GeolocationError(message, code), thrown or rejected with.
GeolocationError(message, code) ==
  [kind |-> "throw", name |-> "GeolocationError", message |-> message, code |-> code]

\* A string that parseFloat reads as the number v.
NumericString(v) == [type |-> "string", v |-> v, numeric |-> TRUE]

\* parseFloat(x): the number itself, the number a string starts with, else NaN.
parseFloat(x) ==
  IF x.type = "number" THEN x.v
  ELSE IF x.type = "string" /\ "numeric" \in DOMAIN x THEN x.v
  ELSE NaN

\* The switch of the error callback: the code of a GeolocationPositionError.
PositionErrorCode(code) ==
  CASE code = 1 -> "PERMISSION_DENIED"
    [] code = 2 -> "POSITION_UNAVAILABLE"
    [] code = 3 -> "TIMEOUT"
    [] OTHER    -> "NETWORK_ERROR"

PositionErrorMessage(code) ==
  CASE code = 1 -> "Location access denied by user"
    [] code = 2 -> "Location information is unavailable"
    [] code = 3 -> "Location request timed out"
    [] OTHER    -> "An unknown error occurred while retrieving location"

\* getCurrentPosition against a navigator that has no geolocation object, or
\* whose geolocation calls the success callback with coords or the error
\* callback with a code.
getCurrentPosition(navigator) ==
  IF ~navigator.geolocation
  THEN GeolocationError("Geolocation is not supported by this browser", "NOT_SUPPORTED")
  ELSE IF navigator.answer = "position"
  THEN IF ~validateCoordinates(navigator.latitude, navigator.longitude)
       THEN GeolocationError("Invalid coordinates received from geolocation API",
                             "INVALID_COORDINATES")
       ELSE Return([latitude |-> navigator.latitude.v,
                    longitude |-> navigator.longitude.v,
                    source |-> "browser_geolocation"])
  ELSE GeolocationError(PositionErrorMessage(navigator.code),
                        PositionErrorCode(navigator.code))

\* validateManualLocation once lat and lng are parsed.
ManualLocation(lat, lng) ==
  IF isNaN(lat) \/ isNaN(lng)
  THEN GeolocationError("Invalid coordinates: latitude and longitude must be valid numbers",
                        "INVALID_COORDINATES")
  ELSE IF ~validateCoordinates(NumberValue(lat), NumberValue(lng))
  THEN GeolocationError("Invalid coordinates: latitude must be between -90 and 90, longitude must be between -180 and 180",
                        "INVALID_COORDINATES")
  ELSE Return([latitude |-> lat, longitude |-> lng, source |-> "manual_input"])

validateManualLocation(latitude, longitude) ==
  ManualLocation(parseFloat(latitude), parseFloat(longitude))

\* The second half of getLocationWithFallback: the fallback location if it is
\* given and valid, else the rejection with POSITION_UNAVAILABLE.
TryFallback(fallbackLocation) ==
  IF ~fallbackLocation.null
     /\ validateManualLocation(fallbackLocation.v.latitude,
                               fallbackLocation.v.longitude).kind = "return"
  THEN validateManualLocation(fallbackLocation.v.latitude, fallbackLocation.v.longitude)
  ELSE GeolocationError("Unable to determine location using any available method",
                        "POSITION_UNAVAILABLE")

\* Faulty variant for C16: the fallback tried after every failure.
AfterBrowserAttemptNoRethrow(attempt, fallbackLocation) ==
  IF attempt.kind = "return" THEN attempt ELSE TryFallback(fallbackLocation)

\* The try block around getCurrentPosition: its position, its error rethrown
\* when the code is PERMISSION_DENIED, the fallback otherwise.
AfterBrowserAttempt(attempt, fallbackLocation) ==
  IF attempt.kind = "return" THEN attempt
  ELSE IF attempt.code = "PERMISSION_DENIED" THEN attempt
  ELSE TryFallback(fallbackLocation)

getLocationWithFallback(options, navigator) ==
  IF options.enableBrowserGeolocation
  THEN AfterBrowserAttempt(getCurrentPosition(navigator), options.fallbackLocation)
  ELSE TryFallback(options.fallbackLocation)

-----------------------------------------------------------------------------
(* saved-locations-manager and the savedLocationsService it calls *)

\* CACHE_DURATION, 24 hours, in ticks of 24 hours.
CACHE_DURATION == 1

\* The id of a location: `temp_...` from generateTempId, or the id of a row.
TempId(n) == [temp |-> TRUE, n |-> n]
RowId(n) == [temp |-> FALSE, n |-> n]

\* A location as the cache and the server hold it.  A row of the server has
\* no _pending and no _deleted field; both read as false.
Location(id, name, latitude, longitude, pending, deleted) ==
  [id |-> id, name |-> name, latitude |-> latitude, longitude |-> longitude,
   pending |-> pending, deleted |-> deleted]

\* name.trim()
Trim(name) ==
  CASE name = " Cabin " -> "Cabin"
    [] OTHER -> name

\* The cache is set and its expiry has passed: Date.now() > parseInt(expiry).
Expired(storage, t) ==
  ~storage.cached.null /\ ~storage.expiry.null /\ t > storage.expiry.v

\* Faulty variant for C17: the cached list read without the expiry test.
getCachedLocationsAnyAge(storage, t) ==
  IF storage.cached.null THEN <<>> ELSE storage.cached.v

\* What getCachedLocations returns at time t.
getCachedLocations(storage, t) ==
  IF storage.cached.null \/ Expired(storage, t) THEN <<>> ELSE storage.cached.v

\* localStorage after getCachedLocations: clearCache() when the cache expired.
StorageAfterRead(storage, t) == IF Expired(storage, t) THEN EmptyStorage ELSE storage

\* localStorage after cacheLocations(locations) at time t.
cacheLocations(locations, t) ==
  [cached |-> Some(locations), expiry |-> Some(t + CACHE_DURATION)]

\* Sequence helpers: filter, map and findIndex of the code.
RECURSIVE SelectPending(_)
SelectPending(locations) ==
  IF locations = <<>> THEN <<>>
  ELSE IF Head(locations).pending THEN <<Head(locations)>> \o SelectPending(Tail(locations))
  ELSE SelectPending(Tail(locations))

RECURSIVE WithoutId(_, _)
WithoutId(locations, id) ==
  IF locations = <<>> THEN <<>>
  ELSE IF Head(locations).id = id THEN WithoutId(Tail(locations), id)
  ELSE <<Head(locations)>> \o WithoutId(Tail(locations), id)

\* cachedLocations.map(loc => loc.id === id ? replacement : loc)
ReplaceId(locations, id, replacement) ==
  [i \in 1..Len(locations) |-> IF locations[i].id = id THEN replacement ELSE locations[i]]

\* cachedLocations.map(loc => loc.id === id ? {...loc, _deleted: true, _pending: true} : loc)
MarkDeleted(locations, id) ==
  [i \in 1..Len(locations) |->
     IF locations[i].id = id
     THEN [locations[i] EXCEPT !.deleted = TRUE, !.pending = TRUE]
     ELSE locations[i]]

HasId(locations, id) == \E i \in 1..Len(locations) : locations[i].id = id

\* cachedLocations.findIndex(loc => loc.id === id), for an id that is present.
IndexOfId(locations, id) ==
  CHOOSE i \in 1..Len(locations) :
    /\ locations[i].id = id
    /\ \A j \in 1..(i - 1) : locations[j].id # id

\* {...record, ...updates}: the fields of updates laid over those of record.
Spread(record, updates) ==
  [f \in DOMAIN record |-> IF f \in DOMAIN updates THEN updates[f] ELSE record[f]]

\* {...cachedLocations[locationIndex], ...updates, _pending: true}
Updated(location, updates) == [Spread(location, updates) EXCEPT !.pending = TRUE]

\* const { _pending, _deleted, ...updateData } = location
UpdateData(location) == [f \in DOMAIN location \ {"pending", "deleted"} |-> location[f]]

\* cachedLocations with the entry at locationIndex replaced.
ReplaceAt(locations, index, replacement) ==
  [i \in 1..Len(locations) |-> IF i = index THEN replacement ELSE locations[i]]

\* The row the server holds after update(id, updates).
UpdatedRow(row, updates) == Spread(row, updates)

\* The table after savedLocationsService.update(id, updates).
TableAfterUpdate(rows, id, updates) ==
  [i \in 1..Len(rows) |-> IF rows[i].id = id THEN UpdatedRow(rows[i], updates) ELSE rows[i]]

\* The row insert(...).select().single() returns for create(name, latitude, longitude).
InsertedRow(n, name, latitude, longitude) ==
  Location(RowId(n), Trim(name), latitude, longitude, FALSE, FALSE)

\* The range tests of create.
LatitudeOutOfRange(latitude) == latitude < -90 * DegUnit \/ latitude > 90 * DegUnit
LongitudeOutOfRange(longitude) == longitude < -180 * DegUnit \/ longitude > 180 * DegUnit

\* Faulty variant for C21: update without its latitude test.
UpdatesLatitudeUnchecked(updates) == FALSE

\* The range tests of update: updates.latitude !== undefined && (...).
UpdatesLatitudeOutOfRange(updates) ==
  "latitude" \in DOMAIN updates /\ LatitudeOutOfRange(updates.latitude)
UpdatesLongitudeOutOfRange(updates) ==
  "longitude" \in DOMAIN updates /\ LongitudeOutOfRange(updates.longitude)

\* locationData of create, built before the server is tried.
LocationData(n, arg, isOnline) ==
  Location(TempId(n), Trim(arg.name), arg.latitude, arg.longitude, ~isOnline, FALSE)

\* A method call that has started: the next step follows await getCurrentUser().
Started(op, arg) ==
  [op |-> op, pc |-> "user", arg |-> arg, data |-> Null, queue |-> <<>>,
   result |-> IdleTask.result]

\* A method call that has settled.
Settled(task, outcome) == [task EXCEPT !.pc = "done", !.result = outcome]

\* One call of savedLocationsService, as the log keeps it: the method, the id
\* of the location it is made for (null when there is none) and whether it
\* succeeded.
Request(op, id, ok) == [op |-> op, id |-> id, ok |-> ok]

\* The log with one more call.
Logged(log, request) == log (+) SetToBag({request})

\* The service call the sync loop makes for a pending location.
SyncOperation(location) ==
  IF location.deleted THEN "delete"
  ELSE IF location.id.temp THEN "create"
  ELSE "update"

-----------------------------------------------------------------------------
(* Calls: each behaviour is one call of an exported function, or a chain of
   calls that feed one another, on arguments drawn from the sets below. *)

NoResult == [kind |-> "none"]

UTCDate(year, month, dom, h, mi, s) ==
  Instant(DaysFromCivil(year, month, dom), h * 3600000 + mi * 60000 + s * 1000)

\* intervalMinutes of generateSunPath is held in ticks of 1 / TicksPerMinute
\* minute, so that fractions of a minute are arguments too.
WholeMinutes == {k * TicksPerMinute : k \in 1 .. 1440}
FractionsOfAMinute == 1 .. (TicksPerMinute - 1)
OutsideIntervals ==
  {-TicksPerMinute, -1, 0, 1440 * TicksPerMinute + 1, 1441 * TicksPerMinute,
   2000 * TicksPerMinute}

PathCalls ==
  [latitude : {NumberValue(4071)}, longitude : {NumberValue(-7401)},
   date : {DateValue(UTCDate(2024, 6, 21, 0, 0, 0))},
   intervalMinutes : WholeMinutes \cup FractionsOfAMinute \cup OutsideIntervals]
  \cup
  [latitude : {NumberValue(4071), NumberValue(9100), NotANumber, NumberValue(NaN)},
   longitude : {NumberValue(-7401), NumberValue(-18100)},
   date : {DateValue(UTCDate(2024, 12, 21, 15, 30, 0)), InvalidDate, NotADate,
           DateValue(UTCDate(999, 6, 21, 12, 0, 0))},
   intervalMinutes : {60 * TicksPerMinute, 0}]

InitPath ==
  /\ sysZone = FixedOffsetZone
  /\ ModuleLoaded
  /\ sysOffset = 0
  /\ hourCycle = "h23"
  /\ pc = "call"
  /\ call \in PathCalls
  /\ result = NoResult

GenerateSunPath ==
  /\ pc = "call"
  /\ result' = generateSunPath(call.latitude, call.longitude, call.date,
                               call.intervalMinutes)
  /\ pc' = "done"
  /\ UNCHANGED <<envVars, call, moduleVars>>

NextPath == GenerateSunPath

SpecPath == InitPath /\ [][NextPath]_vars

\* The call of generateSunPath has returned a path.
PathReturned == pc = "done" /\ result.kind = "return"

\* The call of generateSunPath passed coordinates and a date that validate.
PathArgumentsValid ==
  /\ validateCoordinates(call.latitude, call.longitude)
  /\ normalizeDate(call.date).kind = "return"

\* C1 as stated: for every whole number of minutes from 1 to 1440, the
\* returned path has exactly 1440 / intervalMinutes points, also when the
\* interval does not divide 1440.
C1_ExactQuotient ==
  (pc = "done" /\ PathArgumentsValid /\ call.intervalMinutes \in WholeMinutes)
    => /\ result.kind = "return"
       /\ Len(result.value) * call.intervalMinutes = 1440 * TicksPerMinute

\* C1 amended: for every whole number of minutes from 1 to 1440, the returned
\* path has ceil(1440 / intervalMinutes) points, one for each multiple of the
\* interval below 1440; this is 1440 / intervalMinutes exactly when the
\* interval divides 1440.
C1_PointCount ==
  (pc = "done" /\ PathArgumentsValid /\ call.intervalMinutes \in WholeMinutes)
    => /\ result.kind = "return"
       /\ (Len(result.value) - 1) * call.intervalMinutes < 1440 * TicksPerMinute
       /\ Len(result.value) * call.intervalMinutes >= 1440 * TicksPerMinute
       /\ \A k \in 1 .. Len(result.value) :
            DiffMs(result.value[k].time, result.value[1].time)
              = (k - 1) * call.intervalMinutes * MsPerTick

\* C1 witness: a 7-minute interval, which does not divide 1440, returned 206 points.
C1_Witness ==
  /\ PathReturned
  /\ call.intervalMinutes = 7 * TicksPerMinute
  /\ Len(result.value) = 206

-----------------------------------------------------------------------------
(* calculateSunPosition and getDayNightStatus *)

PositionLatitudes ==
  {NumberValue(v) : v \in {-9000, -6650, -417, 0, 2040, 2302, 4071, 5151, 7800, 9000,
                           -9001, 9100, NaN}}
  \cup {NotANumber}
PositionLongitudes ==
  {NumberValue(v) : v \in {-18000, -10824, -10025, -9233, -8440, -7401, -204, 0, 189,
                           13977, 18000, -18001, 18100, NaN}}
  \cup {NotANumber}
PositionDates ==
  {DateValue(t) : t \in {UTCDate(2024, 3, 11, 12, 0, 0), UTCDate(2024, 6, 21, 12, 0, 0),
                         UTCDate(2024, 9, 22, 18, 30, 45), UTCDate(2024, 12, 21, 0, 0, 0),
                         UTCDate(1000, 1, 1, 0, 0, 0), UTCDate(3000, 12, 31, 23, 59, 59),
                         UTCDate(500, 6, 21, 12, 0, 0), UTCDate(3500, 6, 21, 12, 0, 0)}}
  \cup {InvalidDate, NotADate}

PositionCalls ==
  [op : {"calculateSunPosition", "getDayNightStatus"},
   latitude : PositionLatitudes, longitude : PositionLongitudes, date : PositionDates]

InitPosition ==
  /\ sysZone = FixedOffsetZone
  /\ ModuleLoaded
  /\ sysOffset = 0
  /\ hourCycle = "h23"
  /\ pc = "call"
  /\ call \in PositionCalls
  /\ result = NoResult

CalculateSunPosition ==
  /\ pc = "call"
  /\ call.op = "calculateSunPosition"
  /\ result' = calculateSunPosition(call.latitude, call.longitude, call.date)
  /\ pc' = "done"
  /\ UNCHANGED <<envVars, call, moduleVars>>

GetDayNightStatus ==
  /\ pc = "call"
  /\ call.op = "getDayNightStatus"
  /\ result' = getDayNightStatus(call.latitude, call.longitude, call.date)
  /\ pc' = "done"
  /\ UNCHANGED <<envVars, call, moduleVars>>

NextPosition == CalculateSunPosition \/ GetDayNightStatus

SpecPosition == InitPosition /\ [][NextPosition]_vars

\* A coordinate is a number, not NaN, and within range.
InRange(value, bound) ==
  value.type = "number" /\ ~isNaN(value.v) /\ value.v >= -bound /\ value.v <= bound
CoordinatesInRange ==
  InRange(call.latitude, 90 * DegUnit) /\ InRange(call.longitude, 180 * DegUnit)

\* The date is a finite Date whose calendar year lies in [1000, 3000].
DateInRange ==
  /\ call.date.type = "Date" /\ call.date.valid
  /\ getFullYear(call.date.t, sysOffset) >= 1000
  /\ getFullYear(call.date.t, sysOffset) <= 3000

DateErrors ==
  {"Invalid date provided", "Input must be a Date object",
   "Date must be between years 1000 and 3000"}

\* C5 as stated: calculateSunPosition throws the coordinate error for a
\* non-numeric, NaN or out-of-range coordinate, and a date error for a date
\* that is not a finite Date or whose year lies outside [1000, 3000]; it
\* returns no position for such inputs.
C5_InvalidInputsThrow ==
  (pc = "done" /\ call.op = "calculateSunPosition")
    => /\ ~CoordinatesInRange
          => (result.kind = "throw" /\ result.message = "Invalid coordinates provided")
       /\ (CoordinatesInRange /\ ~DateInRange)
          => (result.kind = "throw" /\ result.message \in DateErrors)

\* C7 as stated: for every valid coordinate and instant, calculateSunPosition
\* returns azimuth in [0, 360) and elevation in (-90, 90).
C7_AnglesInRange ==
  (pc = "done" /\ call.op = "calculateSunPosition" /\ result.kind = "return")
    => /\ NumGe(result.value.azimuth, 0)
       /\ NumLt(result.value.azimuth, 360 * DegUnit)
       /\ NumGt(result.value.elevation, -90 * DegUnit)
       /\ NumLt(result.value.elevation, 90 * DegUnit)

\* C9: the status getDayNightStatus returns is 'day' for an elevation above 0,
\* 'civil_twilight' in (-6, 0], 'nautical_twilight' in (-12, -6],
\* 'astronomical_twilight' in (-18, -12] and 'night' otherwise, so the values
\* 0, -6, -12 and -18 fall in the darker band; isVisible holds exactly when
\* the status is 'day'.
C9_StatusBands ==
  (pc = "done" /\ call.op = "getDayNightStatus" /\ result.kind = "return")
    => LET elevation == result.value.sunPosition.elevation
           status    == result.value.status
       IN  /\ status = "day" <=> (~isNaN(elevation) /\ elevation > 0)
           /\ status = "civil_twilight"
                <=> (~isNaN(elevation) /\ elevation > -6 * DegUnit /\ elevation <= 0)
           /\ status = "nautical_twilight"
                <=> (~isNaN(elevation) /\ elevation > -12 * DegUnit
                     /\ elevation <= -6 * DegUnit)
           /\ status = "astronomical_twilight"
                <=> (~isNaN(elevation) /\ elevation > -18 * DegUnit
                     /\ elevation <= -12 * DegUnit)
           /\ status = "night" <=> (isNaN(elevation) \/ elevation <= -18 * DegUnit)
           /\ result.value.isVisible <=> (status = "day")
           /\ result.value.sunPosition
                = calculateSunPosition(call.latitude, call.longitude, call.date).value

\* C9 witness: an elevation of exactly -6 degrees was classified as nautical twilight.
C9_Witness ==
  /\ pc = "done" /\ call.op = "getDayNightStatus" /\ result.kind = "return"
  /\ result.value.sunPosition.elevation = -6 * DegUnit
  /\ result.value.status = "nautical_twilight"
  /\ ~result.value.isVisible

-----------------------------------------------------------------------------
(* calculateSunTimes, calculateTwilightPeriods and calculateGoldenHour *)

TimesLatitudes == {NumberValue(v) : v \in {-6650, 0, 4071, 5151, 6640, 6739, 7800}}
TimesLongitudes == {NumberValue(v) : v \in {-7401, -13, 13977, 18000}}
TimesDates ==
  {DateValue(t) : t \in {UTCDate(2024, 3, 21, 12, 0, 0), UTCDate(2024, 6, 11, 0, 0, 0),
                         UTCDate(2024, 6, 21, 15, 30, 0), UTCDate(2024, 12, 21, 0, 0, 0)}}
TimesOffsets == {0, -300}

TimesCalls ==
  [op : {"calculateSunTimes", "calculateTwilightPeriods", "calculateGoldenHour"},
   latitude : TimesLatitudes, longitude : TimesLongitudes, date : TimesDates]
  \cup
  [op : {"calculateSunTimes", "calculateTwilightPeriods", "calculateGoldenHour"},
   latitude : {NumberValue(4071), NumberValue(9100)},
   longitude : {NumberValue(-7401), NotANumber},
   date : {InvalidDate, NotADate, DateValue(UTCDate(3500, 6, 21, 12, 0, 0))}]

InitTimes ==
  /\ sysZone = FixedOffsetZone
  /\ ModuleLoaded
  /\ sysOffset \in TimesOffsets
  /\ hourCycle = "h23"
  /\ pc = "call"
  /\ call \in TimesCalls
  /\ result = NoResult

CalculateSunTimes ==
  /\ pc = "call"
  /\ call.op = "calculateSunTimes"
  /\ result' = calculateSunTimes(call.latitude, call.longitude, call.date)
  /\ pc' = "done"
  /\ UNCHANGED <<envVars, call, moduleVars>>

CalculateTwilightPeriods ==
  /\ pc = "call"
  /\ call.op = "calculateTwilightPeriods"
  /\ result' = calculateTwilightPeriods(call.latitude, call.longitude, call.date)
  /\ pc' = "done"
  /\ UNCHANGED <<envVars, call, moduleVars>>

CalculateGoldenHour ==
  /\ pc = "call"
  /\ call.op = "calculateGoldenHour"
  /\ result' = calculateGoldenHour(call.latitude, call.longitude, call.date)
  /\ pc' = "done"
  /\ UNCHANGED <<envVars, call, moduleVars>>

NextTimes == CalculateSunTimes \/ CalculateTwilightPeriods \/ CalculateGoldenHour

SpecTimes == InitTimes /\ [][NextTimes]_vars

Returned(op) == pc = "done" /\ call.op = op /\ result.kind = "return"

\* a <= b for two nullable instants, true when either is null.
NotLater(a, b) == (~a.null /\ ~b.null) => NotAfter(a.v, b.v)

\* C2 as stated: whenever sunrise and sunset are both non-null, sunset is
\* strictly later than sunrise and 0 < dayLength < 24 hours, the cases where
\* the hour-angle cosine is exactly 1 or -1 included.
C2_DayLengthBounds ==
  (Returned("calculateSunTimes")
   /\ ~result.value.sunrise.null /\ ~result.value.sunset.null)
    => /\ Before(result.value.sunrise.v, result.value.sunset.v)
       /\ ~result.value.dayLength.null
       /\ result.value.dayLength.v > 0
       /\ result.value.dayLength.v < 24 * 60

\* C3 as stated: the non-null times of calculateTwilightPeriods are ordered
\* astronomical <= nautical <= civil morning start <= sunrise and
\* sunset <= civil <= nautical <= astronomical evening end.
C3_TwilightOrder ==
  Returned("calculateTwilightPeriods")
    => LET t == result.value
       IN  /\ NotLater(t.astronomical.morning.start, t.nautical.morning.start)
           /\ NotLater(t.nautical.morning.start, t.civil.morning.start)
           /\ NotLater(t.civil.morning.start, t.civil.morning.end)
           /\ NotLater(t.civil.evening.start, t.civil.evening.end)
           /\ NotLater(t.civil.evening.end, t.nautical.evening.end)
           /\ NotLater(t.nautical.evening.end, t.astronomical.evening.end)

\* C4: whenever goldenHour.morning.end and goldenHour.evening.start returned
\* by calculateGoldenHour are both non-null, morning.end is not later than
\* evening.start.
C4_GoldenHourOrder ==
  Returned("calculateGoldenHour")
    => NotLater(result.value.morning.end, result.value.evening.start)

\* C4 witness: calculateGoldenHour returned both a morning end and an evening start.
C4_Witness ==
  /\ Returned("calculateGoldenHour")
  /\ ~result.value.morning.end.null
  /\ ~result.value.evening.start.null
  /\ Before(result.value.morning.end.v, result.value.evening.start.v)

\* The hour-angle cosine of the call's latitude on the call's local day.
CallCosHourAngle ==
  CosHourAngle(call.latitude.v,
               getSolarDeclination(getJulianDay(DateOnly(call.date.t))))

\* C8: sunrise is null if and only if sunset is null, both exactly when the
\* hour-angle cosine is above 1 or below -1, and calculateSunTimes reports a
\* null dayLength exactly in that case and a number otherwise.
C8_NullTogether ==
  Returned("calculateSunTimes")
    => /\ result.value.sunrise.null <=> result.value.sunset.null
       /\ result.value.sunrise.null
            <=> (CallCosHourAngle > One \/ CallCosHourAngle < -One)
       /\ result.value.dayLength.null <=> result.value.sunrise.null
       /\ result.value.sunrise
            = calculateSunrise(call.latitude, call.longitude, call.date.t).value
       /\ result.value.sunset
            = calculateSunset(call.latitude, call.longitude, call.date.t).value

\* C8 witness: on a polar day sunrise, sunset and dayLength are all null.
C8_Witness ==
  /\ Returned("calculateSunTimes")
  /\ CallCosHourAngle < -One
  /\ result.value.sunrise.null /\ result.value.sunset.null
  /\ result.value.dayLength.null

-----------------------------------------------------------------------------
(* convertUTCToTimezone followed by convertTimezoneToUTC *)

ZoneInstants ==
  {AddMs(UTCDate(2024, 6, 21, 15, 30, 45), 123), UTCDate(2024, 1, 15, 0, 20, 0),
   UTCDate(2024, 1, 15, 8, 0, 0), UTCDate(2024, 7, 4, 4, 30, 0),
   UTCDate(2024, 12, 31, 23, 59, 59), UTCDate(2024, 3, 10, 6, 59, 30),
   UTCDate(2024, 3, 10, 7, 0, 0), UTCDate(2024, 11, 3, 5, 30, 0),
   UTCDate(2024, 10, 27, 0, 30, 0), UTCDate(2024, 4, 6, 15, 30, 0)}
ZoneDates == {DateValue(t) : t \in ZoneInstants} \cup {InvalidDate, NotADate}
ZoneValues ==
  {ZoneValue(id) : id \in KnownZones \cup {"Invalid/Timezone", ""}} \cup {NotAZone}
SystemOffsets == {0, -300, 330, 540}
HourCycles == {"h23", "h24"}

ZoneCalls == [date : ZoneDates, timezone : ZoneValues]

InitZone ==
  /\ sysZone = FixedOffsetZone
  /\ ModuleLoaded
  /\ sysOffset \in SystemOffsets
  /\ hourCycle \in HourCycles
  /\ pc = "call"
  /\ call \in ZoneCalls
  /\ result = NoResult

ConvertUTCToTimezone ==
  /\ pc = "call"
  /\ result' = convertUTCToTimezone(call.date, call.timezone)
  /\ pc' = "local"
  /\ UNCHANGED <<envVars, call, moduleVars>>

\* The date convertUTCToTimezone returned is passed back with the same zone.
ConvertTimezoneToUTC ==
  /\ pc = "local"
  /\ result.kind = "return"
  /\ result' = convertTimezoneToUTC(DateValue(result.value), call.timezone)
  /\ pc' = "done"
  /\ UNCHANGED <<envVars, call, moduleVars>>

NextZone == ConvertUTCToTimezone \/ ConvertTimezoneToUTC

SpecZone == InitZone /\ [][NextZone]_vars

TransitionMargin == 2 * MsPerDay

\* No change of the zone's offset lies within two days of t.
AwayFromTransitions(zone, t) ==
  \/ zone \notin KnownZones
  \/ ZoneTable[zone].std = ZoneTable[zone].dst
  \/ \A change \in {ZoneTable[zone].dstStart, ZoneTable[zone].dstEnd} :
       \/ Before(t, AddMs(change, -TransitionMargin))
       \/ Before(AddMs(change, TransitionMargin), t)

\* C10 as stated: for every instant and zone identifier, away from DST
\* transitions, convertTimezoneToUTC(convertUTCToTimezone(instant, zone), zone)
\* differs from instant by less than one minute.
C10_RoundTrip ==
  (pc = "done" /\ AwayFromTransitions(call.timezone.id, call.date.t))
    => /\ result.kind = "return"
       /\ Before(AddMs(call.date.t, -60000), result.value)
       /\ Before(result.value, AddMs(call.date.t, 60000))

-----------------------------------------------------------------------------
(* getTimezoneForCoordinates: calls on one module instance *)

\* Latitudes and longitudes on, just inside and just outside the edges of the
\* boxes and of their bands, and values that validateCoordinates rejects.
LookupLatitudes ==
  {NumberValue(v) : v \in {-90000, -60000, -35000, 0, 15000, 24990, 25000, 35000,
                           40710, 70000, 70010, 90010, NaN}}
  \cup {NotANumber}

\* The longitudes 4.996 and 5.004 lie on the two sides of the edge between
\* two bands and have the same two decimals.
LookupLongitudes ==
  {NumberValue(v) : v \in {-180000, -170000, -130000, -110000, -100000, -80000,
                           -65000, -64990, -50000, -49990, -30000, -20000, -130,
                           4996, 5000, 5004, 40000, 50000, 55000, 60000, 120000,
                           139770, 150000, 150010, 155000, 155010, 180000, 181000}}
  \cup {NotANumber}

\* Zones a process may run in: one the table lists and two it does not.
LookupSystemZones == {"Europe/London", "Pacific/Auckland", "UTC"}

\* The number of lookups followed on one module instance.
MaxLookups == 2

InitLookup ==
  /\ sysZone \in LookupSystemZones
  /\ sysOffset = 0
  /\ hourCycle = "h23"
  /\ pc = "call"
  /\ call = [op |-> "getTimezoneForCoordinates", n |-> 0]
  /\ result = NoResult
  /\ ModuleLoaded

GetTimezoneForCoordinates ==
  /\ call.n < MaxLookups
  /\ \E latitude \in LookupLatitudes, longitude \in LookupLongitudes :
       /\ call' = [op |-> "getTimezoneForCoordinates", n |-> call.n + 1,
                   latitude |-> latitude, longitude |-> longitude]
       /\ result' = getTimezoneForCoordinates(latitude, longitude, timezoneCache)
       /\ timezoneCache' = CacheAfter(latitude, longitude, timezoneCache)
  /\ pc' = "done"
  /\ UNCHANGED <<envVars, managerVars>>

NextLookup == GetTimezoneForCoordinates

SpecLookup == InitLookup /\ [][NextLookup]_vars

\* The regions whose bounding box holds the coordinate of the call.
RegionsHolding(latitude, longitude) ==
  {r \in 1..Len(Regions) : InBox(Regions[r], latitude, longitude)}

\* The identifiers the table lists for region r.
ZonesListed(r) == {Regions[r].bands[i].zone : i \in 1..Len(Regions[r].bands)}

LookupReturned ==
  /\ pc = "done" /\ call.op = "getTimezoneForCoordinates" /\ result.kind = "return"

\* C11: a lookup of a valid coordinate inside some region's bounding box
\* returns an identifier listed for a region whose box holds the coordinate, so
\* that the zone of the process is returned only outside every box.
C11_InsideBoxListedZone ==
  (LookupReturned /\ RegionsHolding(call.latitude.v, call.longitude.v) # {})
    => \E r \in RegionsHolding(call.latitude.v, call.longitude.v) :
         result.value \in ZonesListed(r)

\* The zone the lookup without the cache gives for the coordinate of the call.
UncachedZone == LookedUp(getTimezoneFromCoordinates(call.latitude.v, call.longitude.v))

\* C26: the cache is transparent: the zone a lookup returns for a valid
\* coordinate is the zone the lookup without the cache gives for that
\* coordinate, whatever was resolved before.
C26_CacheTransparent == LookupReturned => result.value = UncachedZone

-----------------------------------------------------------------------------
(* isDSTActive: one call in a process of a given zone *)

\* Instants of 2024, some of them within hours of a transition of a zone of
\* the table, none within a day of the ends of the year.
DSTInstants ==
  {AddMs(UTCDate(2024, 6, 21, 15, 30, 45), 123), UTCDate(2024, 1, 15, 8, 0, 0),
   UTCDate(2024, 3, 10, 0, 0, 0), UTCDate(2024, 3, 10, 6, 59, 30),
   UTCDate(2024, 3, 10, 7, 0, 0), UTCDate(2024, 3, 30, 20, 0, 0),
   UTCDate(2024, 4, 6, 15, 30, 0), UTCDate(2024, 7, 4, 4, 30, 0),
   UTCDate(2024, 10, 5, 12, 0, 0), UTCDate(2024, 10, 27, 0, 30, 0),
   UTCDate(2024, 11, 3, 5, 30, 0), UTCDate(2024, 11, 3, 12, 0, 0),
   UTCDate(2024, 12, 21, 12, 0, 0)}

DSTDates == {DateValue(t) : t \in DSTInstants} \cup {InvalidDate, NotADate}

\* Zones a process may run in: FixedOffsetZone at each of SystemOffsets, and
\* zones of the table that change their offset during the year.
DSTSystemZones == {"America/New_York", "Europe/London", "Australia/Sydney"}

DSTCalls == [op : {"isDSTActive"}, date : DSTDates, timezone : ZoneValues]

InitDST ==
  /\ \/ sysZone = FixedOffsetZone /\ sysOffset \in SystemOffsets
     \/ sysZone \in DSTSystemZones /\ sysOffset = ZoneTable[sysZone].std
  /\ hourCycle = "h23"
  /\ pc = "call"
  /\ call \in DSTCalls
  /\ result = NoResult
  /\ ModuleLoaded

IsDSTActive ==
  /\ pc = "call"
  /\ result' = isDSTActive(call.date, call.timezone)
  /\ pc' = "done"
  /\ UNCHANGED <<envVars, call, moduleVars>>

NextDST == IsDSTActive

SpecDST == InitDST /\ [][NextDST]_vars

\* The larger of the zone's offsets on January 1 and July 1 of 2024.
StandardOffset(zone) ==
  Max(ZoneOffsetAt(zone, UTCDate(2024, 1, 1, 12, 0, 0)),
      ZoneOffsetAt(zone, UTCDate(2024, 7, 1, 12, 0, 0)))

DSTAnswered ==
  /\ pc = "done" /\ call.op = "isDSTActive" /\ result.kind = "return"
  /\ call.timezone.id \in KnownZones

\* C12: isDSTActive returns true exactly when the zone's offset at the date is
\* smaller than the larger of its offsets on January 1 and July 1 of the year,
\* and so false at every instant for a zone that keeps one offset all year.
C12_BelowStandardOffset ==
  DSTAnswered =>
    /\ result.value = (ZoneOffsetAt(call.timezone.id, call.date.t)
                         < StandardOffset(call.timezone.id))
    /\ ZoneTable[call.timezone.id].std = ZoneTable[call.timezone.id].dst
         => result.value = FALSE

\* The zone's offsets in force on January 1 and on July 1 of 2024.
JanuaryOffset(zone) == ZoneOffsetAt(zone, UTCDate(2024, 1, 1, 12, 0, 0))
JulyOffset(zone) == ZoneOffsetAt(zone, UTCDate(2024, 7, 1, 12, 0, 0))

\* C29: for a zone whose July offset is greater than its January offset,
\* isDSTActive returns true at the instants where the July (summer) offset is
\* in force and false at the instants where the January (winter) offset is.
C29_TrueInSummer ==
  (DSTAnswered /\ JulyOffset(call.timezone.id) > JanuaryOffset(call.timezone.id)) =>
    /\ ZoneOffsetAt(call.timezone.id, call.date.t) = JulyOffset(call.timezone.id)
         => result.value = TRUE
    /\ ZoneOffsetAt(call.timezone.id, call.date.t) = JanuaryOffset(call.timezone.id)
         => result.value = FALSE

-----------------------------------------------------------------------------
(* calculateTimeForElevation: one search, as calculateGoldenHour,
   calculateBlueHour and calculateTwilightPeriods start it *)

SearchLatitudes == {NumberValue(v) : v \in {-6650, 0, 4071, 7800, 9000}}
SearchLongitudes == {NumberValue(v) : v \in {-7401, 0, 13977}}
SearchDates ==
  {UTCDate(2024, 2, 19, 0, 0, 0), UTCDate(2024, 6, 21, 2, 0, 0),
   UTCDate(2024, 12, 21, 20, 0, 0)}

\* The elevations the three callers search for: -18, -12, -6 and 6 degrees.
SearchElevations == {-18 * DegUnit, -12 * DegUnit, -6 * DegUnit, 6 * DegUnit}

SearchOffsets == {0, -300, 540}

SearchCalls ==
  [op : {"calculateTimeForElevation"}, latitude : SearchLatitudes,
   longitude : SearchLongitudes, date : SearchDates,
   elevation : SearchElevations, rising : BOOLEAN]
  \cup [op : {"calculateTimeForElevation"}, latitude : {NumberValue(9001), NotANumber},
        longitude : {NumberValue(0)}, date : {UTCDate(2024, 3, 12, 0, 0, 0)},
        elevation : {6 * DegUnit}, rising : BOOLEAN]

InitSearch ==
  /\ sysZone = FixedOffsetZone
  /\ sysOffset \in SearchOffsets
  /\ hourCycle = "h23"
  /\ pc = "call"
  /\ call \in SearchCalls
  /\ result = NoResult
  /\ ModuleLoaded

CalculateTimeForElevation ==
  /\ pc = "call"
  /\ result' = calculateTimeForElevation(call.latitude, call.longitude, call.date,
                                         call.elevation, call.rising)
  /\ pc' = "done"
  /\ UNCHANGED <<envVars, call, moduleVars>>

NextSearch == CalculateTimeForElevation

SpecSearch == InitSearch /\ [][NextSearch]_vars

SearchReturned ==
  pc = "done" /\ call.op = "calculateTimeForElevation" /\ result.kind = "return"

\* The elevation computed at instant t for the coordinates of the call is less
\* than 1.0 degree from the target of the call.
WithinOneDegree(t) ==
  NumLt(NumAbs(NumSub(ElevationAt(call.latitude, call.longitude, t), call.elevation)),
        DegUnit)

\* The loop of the call left without a return, and its final midpoint.
LoopOfCall ==
  BisectionLoop(call.latitude, call.longitude, call.elevation, call.rising,
                SearchWindow(call.date, call.rising).startTime,
                SearchWindow(call.date, call.rising).endTime, 0)

FinalMidpointRejected(loop) ==
  ~loop.returned /\ ~WithinOneDegree(MidTime(loop.startTime, loop.endTime))

\* C13: an instant returned by the search has a computed elevation less than
\* 1.0 degree from the target, and the search returns null only when the loop
\* ends without a return and the final midpoint fails that test.
C13_WithinOneDegree ==
  SearchReturned =>
    IF result.value.null THEN FinalMidpointRejected(LoopOfCall)
    ELSE WithinOneDegree(result.value.v)

\* A search whose answer came from the test after the loop: the elevation at
\* the returned instant is not the target to the hundredth of a degree.
C13_Witness ==
  /\ SearchReturned /\ ~result.value.null
  /\ ElevationAt(call.latitude, call.longitude, result.value.v) # call.elevation

\* The hypotheses of C14 are read off the computed elevation at instants
\* SampleMinutes apart, from the start of the window of the call to its end.
SampleMinutes == 10
SampleCount == 720 \div SampleMinutes

SampleTime(k) ==
  AddMs(SearchWindow(call.date, call.rising).startTime, k * SampleMinutes * 60000)

ElevationSamples ==
  [k \in 0..SampleCount |-> ElevationAt(call.latitude, call.longitude, SampleTime(k))]

\* Rising over the morning window, or falling over the afternoon window.
MonotoneSamples(e) ==
  \A k \in 0..(SampleCount - 1) :
    IF call.rising THEN NumLe(e[k], e[k + 1]) ELSE NumGe(e[k], e[k + 1])

\* Less than one degree a minute.
SlowSamples(e) ==
  \A k \in 0..(SampleCount - 1) :
    NumLt(NumAbs(NumSub(e[k + 1], e[k])), SampleMinutes * DegUnit)

\* The search returned an instant within 60 seconds of t.
WithinAMinuteOf(t) ==
  /\ ~result.value.null
  /\ NotAfter(AddMs(t, -60000), result.value.v)
  /\ NotAfter(result.value.v, AddMs(t, 60000))

SearchNearTarget(e) ==
  (MonotoneSamples(e) /\ SlowSamples(e))
    => \A k \in 0..(SampleCount - 1) :
         e[k] = call.elevation => WithinAMinuteOf(SampleTime(k))

\* C14: when the elevation is monotone over the window of the search, changes
\* by less than a degree a minute and equals the target at an instant T of the
\* window, the search returns an instant within 60 seconds of T.
C14_WithinAMinute == SearchReturned => SearchNearTarget(ElevationSamples)

\* C15: an instant returned by the search lies on the UTC calendar day of the
\* supplied date, before 12:00 UTC when rising and from 12:00 UTC on when not.
C15_HalfOfUTCDay ==
  (SearchReturned /\ ~result.value.null) =>
    /\ result.value.v.day = call.date.day
    /\ call.rising => result.value.v.ms < 12 * 3600000
    /\ ~call.rising => result.value.v.ms >= 12 * 3600000

-----------------------------------------------------------------------------
(* getLocationWithFallback: one call against one browser *)

\* What navigator.geolocation does when asked: absent, a position with
\* coordinates (in range or not), or an error with a code.
Navigators ==
  {[geolocation |-> FALSE]}
  \cup [geolocation : {TRUE}, answer : {"position"},
        latitude : {NumberValue(4071), NumberValue(9100)},
        longitude : {NumberValue(-7401), NumberValue(18000)}]
  \cup [geolocation : {TRUE}, answer : {"error"}, code : {0, 1, 2, 3}]

FallbackLocations ==
  {Null}
  \cup {Some(l) : l \in [latitude : {NumberValue(5151), NumericString(0), NumberValue(-9001),
                                     NotANumber},
                         longitude : {NumberValue(-13), NumericString(18000), NumberValue(NaN)}]}

LocationCalls ==
  [op : {"getLocationWithFallback"},
   options : [enableBrowserGeolocation : BOOLEAN, fallbackLocation : FallbackLocations],
   navigator : Navigators]

InitLocation ==
  /\ sysZone = FixedOffsetZone
  /\ sysOffset = 0
  /\ hourCycle = "h23"
  /\ pc = "call"
  /\ call \in LocationCalls
  /\ result = NoResult
  /\ ModuleLoaded

GetLocationWithFallback ==
  /\ pc = "call"
  /\ result' = getLocationWithFallback(call.options, call.navigator)
  /\ pc' = "done"
  /\ UNCHANGED <<envVars, call, moduleVars>>

NextLocation == GetLocationWithFallback

SpecLocation == InitLocation /\ [][NextLocation]_vars

LocationDone == pc = "done" /\ call.op = "getLocationWithFallback"

\* What the browser's geolocation yields for the navigator of the call.
BrowserAnswer == getCurrentPosition(call.navigator)

\* The fallback location of the call is given and both its coordinates read
\* as numbers in range.
InDegrees(x, limit) ==
  /\ x.type = "number" \/ (x.type = "string" /\ "numeric" \in DOMAIN x)
  /\ ~isNaN(x.v) /\ x.v >= -limit * DegUnit /\ x.v <= limit * DegUnit

FallbackValid ==
  /\ ~call.options.fallbackLocation.null
  /\ InDegrees(call.options.fallbackLocation.v.latitude, 90)
  /\ InDegrees(call.options.fallbackLocation.v.longitude, 180)

FallbackReturned ==
  /\ result.kind = "return" /\ result.value.source = "manual_input"
  /\ result.value.latitude = call.options.fallbackLocation.v.latitude.v
  /\ result.value.longitude = call.options.fallbackLocation.v.longitude.v

RejectedWith(code) ==
  result.kind = "throw" /\ result.name = "GeolocationError" /\ result.code = code

\* The four cases of the claim, for a call that asks the browser.
BrowserFirst ==
  /\ BrowserAnswer.kind = "return" => result = BrowserAnswer
  /\ (BrowserAnswer.kind = "throw" /\ BrowserAnswer.code = "PERMISSION_DENIED")
       => result = BrowserAnswer
  /\ (BrowserAnswer.kind = "throw" /\ BrowserAnswer.code # "PERMISSION_DENIED")
       => IF FallbackValid THEN FallbackReturned ELSE RejectedWith("POSITION_UNAVAILABLE")

\* C16 as stated: every call of getLocationWithFallback returns the browser's
\* position when the browser gives one, rethrows PERMISSION_DENIED, returns a
\* valid fallback location after any other failure and otherwise rejects with
\* POSITION_UNAVAILABLE.
C16_BrowserFirstAlways == LocationDone => BrowserFirst

\* C16: a call that leaves enableBrowserGeolocation on behaves so; a call that
\* turns it off never asks the browser and returns the valid fallback location
\* or rejects with POSITION_UNAVAILABLE.
C16_BrowserFirstWhenEnabled ==
  LocationDone =>
    IF call.options.enableBrowserGeolocation THEN BrowserFirst
    ELSE IF FallbackValid THEN FallbackReturned
    ELSE RejectedWith("POSITION_UNAVAILABLE")

\* Permission denied with a valid fallback location at hand: the error is
\* rethrown and the fallback is not used.
C16_Witness ==
  /\ LocationDone /\ call.options.enableBrowserGeolocation /\ FallbackValid
  /\ BrowserAnswer.kind = "throw" /\ BrowserAnswer.code = "PERMISSION_DENIED"
  /\ RejectedWith("PERMISSION_DENIED")

-----------------------------------------------------------------------------
(* The saved locations manager in use: the application calls its methods one
   at a time, the device goes offline and online, time passes, and every
   'online' event starts syncWithServer twice, once from the manager's own
   listener and once from the hook's handler.  A call advances from one
   await to the next in a single step. *)

MaxCalls == 2      \* manager methods the application calls
MaxTime == 2       \* the clock stops after this many ticks of 24 hours
MaxRequests == 4   \* no 'online' event after this many service calls

CreateArguments ==
  { [name |-> " Cabin ", latitude |-> 4071, longitude |-> -7401],
    [name |-> "Home", latitude |-> 9100, longitude |-> 0] }

\* The updates objects the application passes: a new name, or a latitude
\* that is out of range.
UpdateArguments == { [name |-> "Work"], [latitude |-> 9100] }

\* The row the table holds when the user has saved a location before.
EarlierRow == Location(RowId(1), "Home", 5150, -12, FALSE, FALSE)

InitManager ==
  /\ sysZone = FixedOffsetZone /\ sysOffset = 0 /\ hourCycle = "h23"
  /\ pc = "done" /\ call = [op |-> "none"] /\ result = IdleTask.result
  /\ timezoneCache = EmptyMap
  /\ online \in BOOLEAN /\ user \in BOOLEAN /\ now = 0
  /\ localStorage = EmptyStorage
  /\ server \in {<<>>, <<EarlierRow>>}
  /\ ids = [temp |-> 1, row |-> Len(server) + 1]
  /\ requests = EmptyBag
  /\ tasks = [t \in TaskIds |-> IdleTask]
  /\ calls = 0

\* The caller has no call in progress.
AtRest(t) == tasks[t].pc \in {"idle", "done"}

\* The ids the application can name: those of the entries it has been shown.
RECURSIVE IdsOf(_)
IdsOf(locations) ==
  IF locations = <<>> THEN {} ELSE {Head(locations).id} \cup IdsOf(Tail(locations))

ShownIds == IdsOf(server) \cup (IF localStorage.cached.null THEN {} ELSE IdsOf(localStorage.cached.v))

\* The application calls a method of the manager.
Invoke(op, arg) ==
  /\ AtRest("app") /\ calls < MaxCalls
  /\ tasks' = [tasks EXCEPT !["app"] = Started(op, arg)]
  /\ calls' = calls + 1
  /\ UNCHANGED <<online, user, now, localStorage, server, ids, requests>>
  /\ UNCHANGED <<envVars, pc, call, result, timezoneCache>>

InvokeGetAll == Invoke("getAll", Null)
InvokeCreate == \E arg \in CreateArguments : Invoke("create", arg)
InvokeUpdate == \E id \in ShownIds, updates \in UpdateArguments : Invoke("update", [id |-> id, updates |-> updates])
InvokeDelete == \E id \in ShownIds : Invoke("delete", [id |-> id])

\* syncWithServer called by the application; it returns at once when offline.
InvokeSync ==
  /\ AtRest("app") /\ calls < MaxCalls
  /\ tasks' = [tasks EXCEPT !["app"] =
       IF online THEN Started("sync", Null) ELSE Settled(Started("sync", Null), Return(Null))]
  /\ calls' = calls + 1
  /\ UNCHANGED <<online, user, now, localStorage, server, ids, requests>>
  /\ UNCHANGED <<envVars, pc, call, result, timezoneCache>>

\* The 'offline' event.
GoOffline ==
  /\ online
  /\ online' = FALSE
  /\ UNCHANGED <<user, now, localStorage, server, ids, requests, tasks, calls>>
  /\ UNCHANGED <<envVars, pc, call, result, timezoneCache>>

\* The 'online' event: the manager's listener and the hook's handleOnline
\* each call syncWithServer.  The getAll that the hook's loadLocations makes
\* once its sync has settled is one of the application's calls.
GoOnline ==
  /\ ~online /\ AtRest("listener") /\ AtRest("hook")
  /\ BagCardinality(requests) < MaxRequests
  /\ online' = TRUE
  /\ tasks' = [tasks EXCEPT !["listener"] = Started("sync", Null),
                            !["hook"] = Started("sync", Null)]
  /\ UNCHANGED <<user, now, localStorage, server, ids, requests, calls>>
  /\ UNCHANGED <<envVars, pc, call, result, timezoneCache>>

\* 24 hours pass.
Tick ==
  /\ now < MaxTime
  /\ now' = now + 1
  /\ UNCHANGED <<online, user, localStorage, server, ids, requests, tasks, calls>>
  /\ UNCHANGED <<envVars, pc, call, result, timezoneCache>>

\* getSyncStatus, which the hook calls every five seconds, reads the cache
\* and so clears it once it has expired.
GetSyncStatus ==
  /\ Expired(localStorage, now)
  /\ localStorage' = StorageAfterRead(localStorage, now)
  /\ UNCHANGED <<online, user, now, server, ids, requests, tasks, calls>>
  /\ UNCHANGED <<envVars, pc, call, result, timezoneCache>>

\* A step of caller t that changes only its call, the cache and the log.
Step(t, task, storage, log) ==
  /\ tasks' = [tasks EXCEPT ![t] = task]
  /\ localStorage' = storage
  /\ requests' = log
  /\ UNCHANGED <<online, user, now, calls>>
  /\ UNCHANGED <<envVars, pc, call, result, timezoneCache>>

At(t, op, where) == tasks[t].op = op /\ tasks[t].pc = where

\* A service call can succeed only while the device is online.
Outcomes == IF online THEN BOOLEAN ELSE {FALSE}

\* getAll after await getCurrentUser().
GetAllUser(t) ==
  /\ At(t, "getAll", "user")
  /\ UNCHANGED <<server, ids>>
  /\ IF ~user THEN Step(t, Settled(tasks[t], Return(<<>>)), localStorage, requests)
     ELSE IF online THEN Step(t, [tasks[t] EXCEPT !.pc = "fetch"], localStorage, requests)
     ELSE Step(t, Settled(tasks[t], Return(getCachedLocations(localStorage, now))),
               StorageAfterRead(localStorage, now), requests)

\* getAll after await savedLocationsService.getAll().
GetAllFetch(t) ==
  /\ At(t, "getAll", "fetch")
  /\ UNCHANGED <<server, ids>>
  /\ \E ok \in Outcomes :
       IF ok
       THEN Step(t, Settled(tasks[t], Return(server)), cacheLocations(server, now),
                 Logged(requests, Request("getAll", Null, TRUE)))
       ELSE Step(t, Settled(tasks[t], Return(getCachedLocations(localStorage, now))),
                 StorageAfterRead(localStorage, now),
                 Logged(requests, Request("getAll", Null, FALSE)))

\* The cache after create has put record at the front of the cached list.
CacheWithNew(record) ==
  cacheLocations(<<record>> \o getCachedLocations(localStorage, now), now)

\* create after await getCurrentUser().
CreateUser(t) ==
  /\ At(t, "create", "user")
  /\ UNCHANGED server
  /\ IF ~user
     THEN /\ Step(t, Settled(tasks[t], Throw("User must be authenticated to save locations")),
                  localStorage, requests)
          /\ UNCHANGED ids
     ELSE IF LatitudeOutOfRange(tasks[t].arg.latitude)
     THEN /\ Step(t, Settled(tasks[t], Throw("Latitude must be between -90 and 90 degrees")),
                  localStorage, requests)
          /\ UNCHANGED ids
     ELSE IF LongitudeOutOfRange(tasks[t].arg.longitude)
     THEN /\ Step(t, Settled(tasks[t], Throw("Longitude must be between -180 and 180 degrees")),
                  localStorage, requests)
          /\ UNCHANGED ids
     ELSE /\ ids' = [ids EXCEPT !.temp = @ + 1]
          /\ IF online
             THEN Step(t, [tasks[t] EXCEPT !.pc = "send",
                                           !.data = Some(LocationData(ids.temp, tasks[t].arg, online))],
                       localStorage, requests)
             ELSE Step(t, Settled(tasks[t], Return(LocationData(ids.temp, tasks[t].arg, online))),
                       CacheWithNew(LocationData(ids.temp, tasks[t].arg, online)), requests)

\* create after await savedLocationsService.create(name, latitude, longitude).
CreateSend(t) ==
  /\ At(t, "create", "send")
  /\ \E ok \in Outcomes :
       IF ok
       THEN /\ server' = <<InsertedRow(ids.row, tasks[t].arg.name, tasks[t].arg.latitude, tasks[t].arg.longitude)>> \o server
            /\ ids' = [ids EXCEPT !.row = @ + 1]
            /\ Step(t, Settled(tasks[t], Return(Head(server'))), CacheWithNew(Head(server')),
                    Logged(requests, Request("create", Null, TRUE)))
       ELSE /\ UNCHANGED <<server, ids>>
            /\ Step(t, Settled(tasks[t], Return(tasks[t].data.v)), CacheWithNew(tasks[t].data.v),
                    Logged(requests, Request("create", Null, FALSE)))

\* The entry update leaves in the cache in place of the one with this id.
UpdatedEntry(cached, id, updates) == Updated(cached[IndexOfId(cached, id)], updates)

\* The end of update in the cache, which holds the list cached: offline, or
\* after the server call failed.
UpdateInCache(t, cached, log) ==
  IF HasId(cached, tasks[t].arg.id)
  THEN Step(t, Settled(tasks[t], Return(UpdatedEntry(cached, tasks[t].arg.id, tasks[t].arg.updates))),
            cacheLocations(ReplaceAt(cached, IndexOfId(cached, tasks[t].arg.id),
                                     UpdatedEntry(cached, tasks[t].arg.id, tasks[t].arg.updates)), now),
            log)
  ELSE Step(t, Settled(tasks[t], Throw("Location not found")), StorageAfterRead(localStorage, now), log)

\* update after await getCurrentUser().
UpdateUser(t) ==
  /\ At(t, "update", "user")
  /\ UNCHANGED <<server, ids>>
  /\ IF ~user
     THEN Step(t, Settled(tasks[t], Throw("User must be authenticated to update locations")),
               localStorage, requests)
     ELSE IF UpdatesLatitudeOutOfRange(tasks[t].arg.updates)
     THEN Step(t, Settled(tasks[t], Throw("Latitude must be between -90 and 90 degrees")),
               localStorage, requests)
     ELSE IF UpdatesLongitudeOutOfRange(tasks[t].arg.updates)
     THEN Step(t, Settled(tasks[t], Throw("Longitude must be between -180 and 180 degrees")),
               localStorage, requests)
     ELSE IF online THEN Step(t, [tasks[t] EXCEPT !.pc = "send"], localStorage, requests)
     ELSE UpdateInCache(t, getCachedLocations(localStorage, now), requests)

\* The row with this id.
RowOf(rows, id) == rows[IndexOfId(rows, id)]

\* update after await savedLocationsService.update(id, updates); single()
\* reports an error when no row has the id.
UpdateSend(t) ==
  /\ At(t, "update", "send")
  /\ UNCHANGED ids
  /\ \E ok \in Outcomes :
       IF ok /\ HasId(server, tasks[t].arg.id)
       THEN /\ server' = TableAfterUpdate(server, tasks[t].arg.id, tasks[t].arg.updates)
            /\ Step(t, Settled(tasks[t], Return(RowOf(server', tasks[t].arg.id))),
                    cacheLocations(ReplaceId(getCachedLocations(localStorage, now), tasks[t].arg.id,
                                             RowOf(server', tasks[t].arg.id)), now),
                    Logged(requests, Request("update", tasks[t].arg.id, TRUE)))
       ELSE /\ UNCHANGED server
            /\ UpdateInCache(t, getCachedLocations(localStorage, now),
                             Logged(requests, Request("update", tasks[t].arg.id, FALSE)))

\* The end of delete in the cache: offline, or after the server call failed.
DeleteInCache(t, log) ==
  Step(t, Settled(tasks[t], Return(Null)),
       cacheLocations(MarkDeleted(getCachedLocations(localStorage, now), tasks[t].arg.id), now), log)

\* delete after await getCurrentUser().
DeleteUser(t) ==
  /\ At(t, "delete", "user")
  /\ UNCHANGED <<server, ids>>
  /\ IF ~user
     THEN Step(t, Settled(tasks[t], Throw("User must be authenticated to delete locations")),
               localStorage, requests)
     ELSE IF online THEN Step(t, [tasks[t] EXCEPT !.pc = "send"], localStorage, requests)
     ELSE DeleteInCache(t, requests)

\* delete after await savedLocationsService.delete(id).
DeleteSend(t) ==
  /\ At(t, "delete", "send")
  /\ UNCHANGED ids
  /\ \E ok \in Outcomes :
       IF ok
       THEN /\ server' = WithoutId(server, tasks[t].arg.id)
            /\ Step(t, Settled(tasks[t], Return(Null)),
                    cacheLocations(WithoutId(getCachedLocations(localStorage, now), tasks[t].arg.id), now),
                    Logged(requests, Request("delete", tasks[t].arg.id, TRUE)))
       ELSE /\ UNCHANGED server
            /\ DeleteInCache(t, Logged(requests, Request("delete", tasks[t].arg.id, FALSE)))

\* syncWithServer after await getCurrentUser(): the pending entries are read
\* from the cache once, before the first service call; data keeps
\* pendingLocations and queue the part of it the loop has not reached.
SyncUser(t) ==
  /\ At(t, "sync", "user")
  /\ UNCHANGED <<server, ids>>
  /\ IF ~user THEN Step(t, Settled(tasks[t], Return(Null)), localStorage, requests)
     ELSE IF SelectPending(getCachedLocations(localStorage, now)) = <<>>
     THEN Step(t, Settled(tasks[t], Return(Null)), StorageAfterRead(localStorage, now), requests)
     ELSE Step(t, [tasks[t] EXCEPT !.pc = "loop",
                                   !.data = Some(SelectPending(getCachedLocations(localStorage, now))),
                                   !.queue = SelectPending(getCachedLocations(localStorage, now))],
               StorageAfterRead(localStorage, now), requests)

\* The table after the service call the sync loop makes for location.
TableAfterSync(rows, location, n) ==
  CASE SyncOperation(location) = "delete" -> WithoutId(rows, location.id)
    [] SyncOperation(location) = "create" ->
         <<InsertedRow(n, location.name, location.latitude, location.longitude)>> \o rows
    [] OTHER -> TableAfterUpdate(rows, location.id, UpdateData(location))

\* Whether the service call for location can succeed on this table.
CanApply(rows, location) == SyncOperation(location) = "update" => HasId(rows, location.id)

\* The call after the loop's try block has run for the head of its queue.
NextInLoop(task) ==
  [task EXCEPT !.queue = Tail(@),
               !.pc = IF Tail(task.queue) = <<>> THEN "refresh" ELSE "loop"]

\* Faulty variant for C20: the loop without its try/catch.
AfterSyncItemUncaught(task, ok) ==
  IF ok THEN NextInLoop(task) ELSE Settled(task, Throw("Failed to sync location"))

\* The sync loop after one await: a rejected call is caught and logged, and
\* the loop goes on with the next pending location.
AfterSyncItem(task, ok) == NextInLoop(task)

\* Whether the service call for the head of the queue succeeds.
ItemSucceeds(t, ok) == ok /\ CanApply(server, Head(tasks[t].queue))

SyncItem(t) ==
  /\ At(t, "sync", "loop")
  /\ \E ok \in Outcomes :
       /\ IF ItemSucceeds(t, ok)
          THEN /\ server' = TableAfterSync(server, Head(tasks[t].queue), ids.row)
               /\ ids' = IF SyncOperation(Head(tasks[t].queue)) = "create"
                         THEN [ids EXCEPT !.row = @ + 1] ELSE ids
          ELSE UNCHANGED <<server, ids>>
       /\ Step(t, AfterSyncItem(tasks[t], ItemSucceeds(t, ok)), localStorage,
               Logged(requests, Request(SyncOperation(Head(tasks[t].queue)),
                                        Head(tasks[t].queue).id, ItemSucceeds(t, ok))))

\* syncWithServer after await savedLocationsService.getAll(): the cache is
\* replaced by the fetched list; a rejection is caught.
SyncRefresh(t) ==
  /\ At(t, "sync", "refresh")
  /\ UNCHANGED <<server, ids>>
  /\ \E ok \in Outcomes :
       IF ok
       THEN Step(t, Settled(tasks[t], Return(Null)), cacheLocations(server, now),
                 Logged(requests, Request("getAll", Null, TRUE)))
       ELSE Step(t, Settled(tasks[t], Return(Null)), localStorage,
                 Logged(requests, Request("getAll", Null, FALSE)))

NextManager ==
  \/ InvokeGetAll \/ InvokeCreate \/ InvokeUpdate \/ InvokeDelete \/ InvokeSync
  \/ GoOffline \/ GoOnline \/ Tick \/ GetSyncStatus
  \/ \E t \in TaskIds :
       \/ GetAllUser(t) \/ GetAllFetch(t)
       \/ CreateUser(t) \/ CreateSend(t)
       \/ UpdateUser(t) \/ UpdateSend(t)
       \/ DeleteUser(t) \/ DeleteSend(t)
       \/ SyncUser(t) \/ SyncItem(t) \/ SyncRefresh(t)

SpecManager == InitManager /\ [][NextManager]_vars

-----------------------------------------------------------------------------
(* Claims about the saved locations manager *)

\* The step settles a call of op by caller t.
Settles(t, op) ==
  /\ tasks[t].op = op /\ tasks[t].pc \notin {"idle", "done"}
  /\ tasks'[t].op = op /\ tasks'[t].pc = "done"

\* The step is a call of savedLocationsService method op for id that succeeded.
Succeeds(op, id) == requests' = Logged(requests, Request(op, id, TRUE))

\* The cached list as a reader finds it: empty when there is none or when it
\* was written more than 24 hours ago.
CachedList ==
  IF localStorage.cached.null THEN <<>>
  ELSE IF now - (localStorage.expiry.v - CACHE_DURATION) > CACHE_DURATION THEN <<>>
  ELSE localStorage.cached.v

GetAllContract(t) ==
  IF ~user THEN tasks'[t].result = Return(<<>>)
  ELSE IF Succeeds("getAll", Null)
  THEN tasks'[t].result = Return(server) /\ localStorage'.cached = Some(server)
  ELSE tasks'[t].result = Return(CachedList)

\* C17: getAll returns [] when nobody is signed in; when the server fetch
\* succeeds it returns the server's list and the cache then holds that list;
\* otherwise (offline, or the fetch failed) it returns the cached list, which
\* is empty when the cache is absent or older than 24 hours.
C17_GetAllContract == [][\A t \in TaskIds : Settles(t, "getAll") => GetAllContract(t)]_vars

\* getAll has returned a cached list of at least one entry on a device that
\* never reached the server.
C17_Witness ==
  /\ user /\ ~online /\ requests = EmptyBag
  /\ tasks["app"].op = "getAll" /\ tasks["app"].pc = "done"
  /\ tasks["app"].result.value # <<>>
  /\ tasks["app"].result = Return(CachedList)

\* The entries localStorage holds under the cache key.
StoredEntries == IF localStorage.cached.null THEN <<>> ELSE localStorage.cached.v

\* The step ends a create that found the device offline, for a signed-in
\* user and coordinates in range.
CreatesOffline(t) ==
  /\ Settles(t, "create") /\ tasks[t].pc = "user"
  /\ user /\ ~online
  /\ tasks'[t].result.kind = "return"

OfflineCreateContract(t) ==
  /\ requests' = requests
  /\ tasks'[t].result.value.id.temp
  /\ tasks'[t].result.value.pending
  /\ localStorage'.cached = Some(<<tasks'[t].result.value>> \o StoredEntries)

\* C18: create called offline makes no server call, returns a record with a
\* temporary id and _pending true, and puts it at the front of the cached
\* list, every entry cached before staying as it was.
C18_OfflineCreate == [][\A t \in TaskIds : CreatesOffline(t) => OfflineCreateContract(t)]_vars

\* No call of the service has been rejected up to the end of the step.
EveryCallSucceeded == \A r \in BagToSet(requests') : r.ok

\* The step ends a sync that synchronised something: its refresh succeeded.
CompletesSync(t) == Settles(t, "sync") /\ tasks[t].pc = "refresh" /\ Succeeds("getAll", Null)

\* How often the service has been called, by the end of the step, with the
\* method a sync uses for this pending location.
TimesSent(location) ==
  CopiesIn(Request(SyncOperation(location), location.id, TRUE), requests')

SyncContract(t) ==
  /\ \A i \in 1..Len(tasks[t].data.v) : TimesSent(tasks[t].data.v[i]) = 1
  /\ localStorage'.cached = Some(server)
  /\ \A i \in 1..Len(server) : ~server[i].pending

\* C19: online, signed in and with every server call succeeding, when
\* syncWithServer completes each entry that was pending has been sent exactly
\* once (delete, create or update by its flags and id), the cache equals the
\* list fetched from the server and no entry is pending.
C19_SyncSendsOnce ==
  [][\A t \in TaskIds : (CompletesSync(t) /\ user /\ online /\ EveryCallSucceeded) => SyncContract(t)]_vars

\* A call of the service made for this pending location was rejected.
RejectedFor(location) ==
  CopiesIn(Request(SyncOperation(location), location.id, FALSE), requests) > 0

\* C20: for a signed-in user the promise of syncWithServer resolves, whether
\* or not a create, update or delete of the loop, or the final refresh, was
\* rejected.
C20_SyncResolves ==
  \A t \in TaskIds :
    (user /\ tasks[t].op = "sync" /\ tasks[t].pc = "done") => tasks[t].result.kind = "return"

\* A sync has resolved after the service rejected the call for one of its
\* pending locations and then rejected the refresh.
C20_Witness ==
  \E t \in TaskIds :
    /\ user /\ tasks[t].op = "sync" /\ tasks[t].pc = "done"
    /\ tasks[t].result.kind = "return"
    /\ ~tasks[t].data.null
    /\ \E i \in 1..Len(tasks[t].data.v) : RejectedFor(tasks[t].data.v[i])
    /\ CopiesIn(Request("getAll", Null, FALSE), requests) > 0

\* The step is the first one of a call of op by caller t after it was made.
FirstStep(t, op) == tasks[t].op = op /\ tasks[t].pc = "user" /\ tasks'[t] # tasks[t]

\* The step rejects the call of caller t with an error of one of the messages
\* and leaves the cache and the table as they were.
RejectsUntouched(t, messages) ==
  /\ tasks'[t].pc = "done" /\ tasks'[t].result.kind = "throw"
  /\ tasks'[t].result.message \in messages
  /\ localStorage' = localStorage
  /\ server' = server

AuthenticationErrors ==
  { "User must be authenticated to save locations",
    "User must be authenticated to update locations",
    "User must be authenticated to delete locations" }

RangeErrors ==
  { "Latitude must be between -90 and 90 degrees",
    "Longitude must be between -180 and 180 degrees" }

\* The coordinates a call of create or update carries.
CoordinatesOf(task) == IF task.op = "create" THEN task.arg ELSE task.arg.updates

\* A coordinate of the call lies outside [-90, 90] or [-180, 180] degrees.
CoordinateOutside(task) ==
  \/ /\ "latitude" \in DOMAIN CoordinatesOf(task)
     /\ (CoordinatesOf(task).latitude < -9000 \/ CoordinatesOf(task).latitude > 9000)
  \/ /\ "longitude" \in DOMAIN CoordinatesOf(task)
     /\ (CoordinatesOf(task).longitude < -18000 \/ CoordinatesOf(task).longitude > 18000)

ReturnsUnstored(t) ==
  /\ Settles(t, "create") /\ tasks'[t].result.kind = "return"
  /\ tasks'[t].result.value.id.temp

\* The cache after the step holds an entry with this id marked _pending.
CachedPending(id) ==
  /\ ~localStorage'.cached.null
  /\ \E i \in 1..Len(localStorage'.cached.v) :
       localStorage'.cached.v[i].id = id /\ localStorage'.cached.v[i].pending

\* C22: a location that create returns without having stored it on the
\* server (offline, or the server call failed) is in the cache with _pending
\* true.
C22_UnstoredIsPending ==
  [][\A t \in TaskIds : ReturnsUnstored(t) => CachedPending(tasks'[t].result.value.id)]_vars

\* The table holds a row with the content of this location.
RowLike(rows, location) ==
  \E i \in 1..Len(rows) :
    /\ rows[i].name = location.name
    /\ rows[i].latitude = location.latitude
    /\ rows[i].longitude = location.longitude
    /\ (~location.id.temp => rows[i].id = location.id)

\* The change a pending location stands for has been made on the server.
AppliedOnServer(rows, location) ==
  IF location.deleted THEN ~HasId(rows, location.id) ELSE RowLike(rows, location)

\* The cache after the step still holds this location, marked _pending.
StillPending(location) ==
  /\ ~localStorage'.cached.null
  /\ \E i \in 1..Len(localStorage'.cached.v) : localStorage'.cached.v[i] = location

\* Every change that is pending in the cache before the step is applied on
\* the server or pending in the cache after it.
KeepsPendingChanges ==
  \A i \in 1..Len(StoredEntries) :
    StoredEntries[i].pending =>
      AppliedOnServer(server', StoredEntries[i]) \/ StillPending(StoredEntries[i])

\* C23: getAll never discards an unsynced change: every change pending when
\* it runs is afterwards applied on the server or still pending in the cache.
C23_GetAllKeepsPending ==
  [][\A t \in TaskIds : Settles(t, "getAll") => KeepsPendingChanges]_vars

\* By the end of the step every service call made for this pending location
\* has been rejected, the one of the sync that ends included.
OnlyRejectedFor(location) ==
  /\ CopiesIn(Request(SyncOperation(location), location.id, FALSE), requests') > 0
  /\ CopiesIn(Request(SyncOperation(location), location.id, TRUE), requests') = 0

\* The step ends a sync that went through its loop.
EndsSync(t) == Settles(t, "sync") /\ ~tasks[t].data.null

\* C24: a pending change whose server call failed during syncWithServer is
\* still in the cache, marked pending, when the sync has completed.
C24_FailedStaysPending ==
  [][\A t \in TaskIds :
       EndsSync(t) =>
         \A i \in 1..Len(tasks[t].data.v) :
           OnlyRejectedFor(tasks[t].data.v[i]) => StillPending(tasks[t].data.v[i])]_vars

\* C25: whatever the interleaving of syncWithServer calls and however often
\* a sync runs, a location created offline is created on the server at most
\* once.
C25_CreatedAtMostOnce ==
  \A r \in BagToSet(requests) :
    (r.op = "create" /\ r.ok /\ r.id # Null) => CopiesIn(r, requests) <= 1

-----------------------------------------------------------------------------
(* calculateBlueHour, then calculateGoldenHour with the same arguments *)

HoursLatitudes == {NumberValue(v) : v \in {-6650, 0, 4071, 5150, 6000, 7800, 9000}}
HoursLongitudes == {NumberValue(v) : v \in {-7401, -12, 0, 13977}}
HoursDates ==
  {DateValue(d) : d \in {UTCDate(2024, 2, 19, 0, 0, 0), UTCDate(2024, 3, 20, 12, 0, 0),
                         UTCDate(2024, 6, 21, 2, 0, 0), UTCDate(2024, 12, 21, 20, 0, 0)}}
HoursOffsets == {0, -300, 540}

HoursCalls ==
  [op : {"calculateBlueHour"}, latitude : HoursLatitudes,
   longitude : HoursLongitudes, date : HoursDates]

InitHours ==
  /\ sysZone = FixedOffsetZone
  /\ sysOffset \in HoursOffsets
  /\ hourCycle = "h23"
  /\ pc = "call"
  /\ call \in HoursCalls
  /\ result = NoResult
  /\ ModuleLoaded

CalculateBlueHour ==
  /\ pc = "call"
  /\ result' = [blueHour |-> calculateBlueHour(call.latitude, call.longitude, call.date)]
  /\ pc' = "blue"
  /\ UNCHANGED <<envVars, call, moduleVars>>

CalculateGoldenHourNext ==
  /\ pc = "blue"
  /\ result.blueHour.kind = "return"
  /\ result' = [blueHour |-> result.blueHour,
                goldenHour |-> calculateGoldenHour(call.latitude, call.longitude, call.date)]
  /\ pc' = "done"
  /\ UNCHANGED <<envVars, call, moduleVars>>

NextHours == CalculateBlueHour \/ CalculateGoldenHourNext

SpecHours == InitHours /\ [][NextHours]_vars

HoursReturned ==
  /\ pc = "done" /\ call.op = "calculateBlueHour"
  /\ result.goldenHour.kind = "return"

\* The boundaries of a morning in the order of their targets, -12, -6, -6 and
\* 6 degrees, and those of an evening, 6, -6, -6 and -12 degrees.
MorningBoundaries ==
  << result.blueHour.value.morning.start, result.blueHour.value.morning.end,
     result.goldenHour.value.morning.start, result.goldenHour.value.morning.end >>

EveningBoundaries ==
  << result.goldenHour.value.evening.start, result.goldenHour.value.evening.end,
     result.blueHour.value.evening.start, result.blueHour.value.evening.end >>

\* No boundary is later than a boundary that follows it, nulls left aside.
Ordered(boundaries) ==
  \A i \in 1..Len(boundaries), j \in 1..Len(boundaries) :
    i < j => NotLater(boundaries[i], boundaries[j])

\* C27: the boundaries of the blue hour and of the golden hour are ordered
\* whenever both values compared are non-null: in the morning the search for
\* a lower target returns no later instant than the search for a higher one,
\* in the evening no earlier one.
C27_WindowsOrdered == HoursReturned => (Ordered(MorningBoundaries) /\ Ordered(EveningBoundaries))


\* A morning with its four boundaries found, the first strictly before the
\* last, and an evening with its four boundaries found.
C27_Witness ==
  /\ HoursReturned
  /\ \A i \in 1..4 : ~MorningBoundaries[i].null /\ ~EveningBoundaries[i].null
  /\ Before(MorningBoundaries[1].v, MorningBoundaries[4].v)
  /\ Before(EveningBoundaries[1].v, EveningBoundaries[4].v)

-----------------------------------------------------------------------------
(* calculateTimeForElevation, one iteration of its loop at a time *)

\* The variables of the loop while it runs, iterations included.
LoopState(startTime, endTime, iterations) ==
  [returned |-> FALSE, startTime |-> startTime, endTime |-> endTime,
   iterations |-> iterations]

InitBisection ==
  /\ sysZone = FixedOffsetZone
  /\ sysOffset \in SearchOffsets
  /\ hourCycle = "h23"
  /\ pc = "call"
  /\ call \in SearchCalls
  /\ result = NoResult
  /\ ModuleLoaded

\* The validation, then startTime, endTime and iterations before the loop.
EnterSearch ==
  /\ pc = "call"
  /\ IF ~validateCoordinates(call.latitude, call.longitude)
     THEN /\ result' = Throw("Invalid coordinates provided")
          /\ pc' = "done"
     ELSE /\ result' = LoopState(SearchWindow(call.date, call.rising).startTime,
                                 SearchWindow(call.date, call.rising).endTime, 0)
          /\ pc' = "loop"
  /\ UNCHANGED <<envVars, call, moduleVars>>

\* The condition of the while loop.
LoopContinues ==
  /\ ~result.returned
  /\ result.iterations < maxIterations
  /\ DiffMs(result.endTime, result.startTime) > 60000

Iterate ==
  /\ pc = "loop"
  /\ LoopContinues
  /\ result' = LoopIteration(call.elevation, call.rising, result.startTime,
                             result.endTime, result.iterations,
                             MidTime(result.startTime, result.endTime),
                             ElevationAt(call.latitude, call.longitude,
                                         MidTime(result.startTime, result.endTime)))
  /\ UNCHANGED <<envVars, pc, call, moduleVars>>

\* The return from inside the loop, or the test after the loop.
LeaveLoop ==
  /\ pc = "loop"
  /\ ~LoopContinues
  /\ result' = AfterLoop(call.latitude, call.longitude, call.elevation, result)
  /\ pc' = "done"
  /\ UNCHANGED <<envVars, call, moduleVars>>

NextBisection == EnterSearch \/ Iterate \/ LeaveLoop

SpecBisection == InitBisection /\ [][NextBisection]_vars

IntervalMs(loop) == DiffMs(loop.endTime, loop.startTime)

TwelveHours == 12 * 3600000

\* The interval before the first iteration: 12 hours for a rising search, and
\* for a falling search the millisecond less that 23:59:59.999 leaves.
StartsAtTwelveHours ==
  (pc = "loop" /\ result.iterations = 0 /\ ~result.returned) =>
    IntervalMs(result) \in {TwelveHours - 1, TwelveHours}

\* An iteration that does not return leaves half of the interval, to the
\* millisecond, and counts one more.
Halves ==
  (pc = "loop" /\ pc' = "loop" /\ ~result'.returned) =>
    /\ result'.iterations = result.iterations + 1
    /\ 2 * IntervalMs(result') \in {IntervalMs(result) - 1, IntervalMs(result),
                                    IntervalMs(result) + 1}

\* The loop is left without a return only with an interval of 60 seconds or less.
EndsWithinAMinute ==
  (pc = "loop" /\ pc' = "done" /\ ~result.returned) => IntervalMs(result) <= 60000

\* An iteration returns midTime or counts one more, so that the iterations
\* left, maxIterations - iterations, decrease with every iteration that stays
\* in the loop.
Counts ==
  (pc = "loop" /\ pc' = "loop") =>
    \/ result'.returned
    \/ maxIterations - result'.iterations < maxIterations - result.iterations

\* C28: the loop of calculateTimeForElevation terminates for every call after
\* at most 50 iterations: iterations never exceeds 50 and every pass through
\* the loop returns or counts one more, the interval starts at 12 hours, each
\* iteration that does not return halves it, and the loop ends once the
\* interval is no longer than 60 seconds.
C28_LoopTerminates ==
  /\ [](pc = "loop" => (result.returned \/ result.iterations <= maxIterations))
  /\ []StartsAtTwelveHours
  /\ [][Counts /\ Halves /\ EndsWithinAMinute]_vars

\* A loop that ran until its interval was no longer than 60 seconds.
C28_Witness ==
  /\ pc = "loop" /\ ~result.returned
  /\ result.iterations > 0
  /\ IntervalMs(result) <= 60000

-----------------------------------------------------------------------------
(* calculateSunrise, calculateSunset and calculateSolarNoon: one call in a
   process of one zone, and the same call in a process of another zone *)

RunsLatitudes == {NumberValue(v) : v \in {0, 4071, 7800}}
RunsLongitudes == {NumberValue(v) : v \in {-7401, -13, 13977}}
RunsDates ==
  {UTCDate(2024, 3, 21, 12, 0, 0), UTCDate(2024, 6, 21, 2, 0, 0),
   UTCDate(2024, 12, 21, 12, 0, 0)}
RunsOffsets == {0, -300, 540}

RunsCalls ==
  [op : {"calculateSunrise", "calculateSunset", "calculateSolarNoon"},
   latitude : RunsLatitudes, longitude : RunsLongitudes, date : RunsDates]

InitRuns ==
  /\ sysZone = FixedOffsetZone
  /\ sysOffset \in RunsOffsets
  /\ hourCycle = "h23"
  /\ pc = "call"
  /\ call \in RunsCalls
  /\ result = NoResult
  /\ ModuleLoaded

\* The closed-form event the call names, in the zone the process runs in.
ClosedFormEvent ==
  CASE call.op = "calculateSunrise" ->
         calculateSunrise(call.latitude, call.longitude, call.date)
    [] call.op = "calculateSunset" ->
         calculateSunset(call.latitude, call.longitude, call.date)
    [] call.op = "calculateSolarNoon" ->
         calculateSolarNoon(call.latitude, call.longitude, call.date)

FirstRun ==
  /\ pc = "call"
  /\ result' = [first |-> ClosedFormEvent]
  /\ pc' = "first"
  /\ UNCHANGED <<envVars, call, moduleVars>>

\* The program started again on a system of another zone.
OtherZone ==
  /\ pc = "first"
  /\ sysOffset' \in RunsOffsets \ {sysOffset}
  /\ pc' = "moved"
  /\ UNCHANGED <<sysZone, hourCycle, call, result, moduleVars>>

SecondRun ==
  /\ pc = "moved"
  /\ result' = [first |-> result.first, second |-> ClosedFormEvent]
  /\ pc' = "done"
  /\ UNCHANGED <<envVars, call, moduleVars>>

NextRuns == FirstRun \/ OtherZone \/ SecondRun

SpecRuns == InitRuns /\ [][NextRuns]_vars

BothRunsDone ==
  pc = "done" /\ call.op \in {"calculateSunrise", "calculateSunset", "calculateSolarNoon"}

\* C30: two runs of calculateSunrise, calculateSunset or calculateSolarNoon
\* with the same coordinates and date, on systems that differ only in their
\* zone offset, return the same UTC instant.
C30_SameInEveryZone == BothRunsDone => result.first = result.second

=============================================================================
